---- MODULE Spec2Model ----
(***************************************************************************)
(* A model of valtor (github.com/dstotijn/valtor): the base Schema with    *)
(* its ordered list of validator closures, the String, Number, Pointer     *)
(* and Array schemas built on it, and the calls a program makes on them    *)
(* (builder methods, Validate).                                            *)
(*                                                                         *)
(* Go values are modelled as follows.                                      *)
(*   error        a record [msg, id, cause]; NilError is the nil error,    *)
(*                id "ErrValueRequired" is the package's sentinel (errors  *)
(*                are compared by identity in Go), cause is the %w-wrapped *)
(*                error (<<>> when there is none).                         *)
(*   closure      a record [kind, ...captured variables]; Call applies it. *)
(*   string       a TLA+ string; len is Len.                               *)
(*   number       [nan, val]: an integer value, or the float NaN.          *)
(*   *T, []T      [isNil, elem] and [isNil, items].                        *)
(* Every Validate also yields the trace of the closures it invoked.        *)
(***************************************************************************)
EXTENDS Integers, Sequences, FiniteSets, TLC

VARIABLES
    base,   \* a *Schema[T]                      (validator.go)
    str,    \* a *StringSchema                   (string schema)
    num,    \* a *NumberSchema[T]                (number.go)
    ptr,    \* a *PointerSchema[string]          (pointer schema)
    arr,    \* an *ArraySchema[any]              (array.go)
    obj,    \* an *ObjectSchema[T]               (object.go)
    null,   \* a *NullSchema                     (null.go)
    bool,   \* a *BoolSchema                     (bool.go)
    parsed, \* what ParseJSONSchema returned     (JSON Schema adapter)
    threads, \* the Validate calls in progress, one for each goroutine
    ret     \* what the most recent call returned

vars == <<base, str, num, ptr, arr, obj, null, bool, parsed, threads, ret>>

----------------------------------------------------------------------------
(* Bounds of the model. *)

\* The most validators attached to one schema.
MaxValidators == 2
\* The largest length or count a builder is given; the longest string and slice.
MaxLen == 2
\* The largest number a program passes as a value or as a bound.
MaxValue == 2
\* The deepest nesting of object schemas, and of maps.
MaxDepth == 2
\* The goroutines that call Validate at the same time.
MaxThreads == 2
\* The integer types are modelled IntBits bits wide: int64 and uint64 are the
\* signed and the unsigned integers of that width.
IntBits == 4

----------------------------------------------------------------------------
(* Errors. *)

NilError == [msg |-> "<nil>", id |-> "nil", cause |-> <<>>]

ErrValueRequired == [msg |-> "value is required", id |-> "ErrValueRequired", cause |-> <<>>]

\* fmt.Errorf without %w, errors.New: a fresh error that carries a message.
Errorf(msg) == [msg |-> msg, id |-> "error", cause |-> <<>>]

\* fmt.Errorf(prefix + "%w", err): a fresh error that wraps err.
Wrapf(prefix, err) == [msg |-> prefix \o err.msg, id |-> "error", cause |-> <<err>>]

\* A run-time panic: the call does not return.
Panic(msg) == [msg |-> "panic: " \o msg, id |-> "panic", cause |-> <<>>]

\* One invocation of a closure, as recorded in a trace.
Event(fn, i) == [fn |-> fn, i |-> i]

Result(err, calls) == [err |-> err, calls |-> calls]

----------------------------------------------------------------------------
(* Base schema: validator.go. *)

RECURSIVE Call(_, _)

New == [validators |-> <<>>]

Schema_Custom(s, fn) == [s EXCEPT !.validators = Append(@, fn)]

\* The loop of Schema.Validate from validator i on.
RECURSIVE ValidateFrom(_, _, _)
ValidateFrom(validators, value, i) ==
    IF i > Len(validators)
    THEN Result(NilError, <<>>)
    ELSE LET r    == Call(validators[i], value)
             here == <<Event("validator", i)>> \o r.calls
         IN  IF r.err # NilError
             THEN Result(r.err, here)
             ELSE LET rest == ValidateFrom(validators, value, i + 1)
                  IN  Result(rest.err, here \o rest.calls)

\* A Validate that runs every validator and reports the last error.
RECURSIVE ValidateAllFrom(_, _, _)
ValidateAllFrom(validators, value, i) ==
    IF i > Len(validators)
    THEN Result(NilError, <<>>)
    ELSE LET r    == Call(validators[i], value)
             here == <<Event("validator", i)>> \o r.calls
             rest == ValidateAllFrom(validators, value, i + 1)
         IN  Result(IF rest.err # NilError THEN rest.err ELSE r.err,
                    here \o rest.calls)

Schema_ValidateAll(s, value) == ValidateAllFrom(s.validators, value, 1)

Schema_Validate(s, value) == ValidateFrom(s.validators, value, 1)

\* A caller's own predicate, passed to Custom: it rejects the values of
\* `rejects` with an error of its own.
CustomFn(rejects) ==
    [kind |-> "Custom", rejects |-> rejects,
     msg |-> "custom: rejects " \o ToString(rejects)]

CustomFn_Call(fn, v) ==
    IF v \in fn.rejects THEN Result(Errorf(fn.msg), <<>>) ELSE Result(NilError, <<>>)

----------------------------------------------------------------------------
(* String schema. *)

String == [Schema |-> New, required |-> FALSE]

StringSchema_Required(s) == [s EXCEPT !.required = TRUE]

StringSchema_Min(s, min) ==
    [s EXCEPT !.Schema.validators = Append(@, [kind |-> "StringSchema.Min", min |-> min])]

StringSchema_Max(s, max) ==
    [s EXCEPT !.Schema.validators = Append(@, [kind |-> "StringSchema.Max", max |-> max])]

StringSchema_Length(s, length) ==
    [s EXCEPT !.Schema.validators =
        Append(@, [kind |-> "StringSchema.Length", length |-> length])]

\* Min's closure with <= for <.
StringSchema_MinFnOffByOne(fn, v) ==
    IF Len(v) <= fn.min
    THEN Result(Errorf("length must be at least " \o ToString(fn.min)), <<>>)
    ELSE Result(NilError, <<>>)

StringSchema_MinFn(fn, v) ==
    IF Len(v) < fn.min
    THEN Result(Errorf("length must be at least " \o ToString(fn.min)), <<>>)
    ELSE Result(NilError, <<>>)

StringSchema_MaxFn(fn, v) ==
    IF Len(v) > fn.max
    THEN Result(Errorf("length must be at most " \o ToString(fn.max)), <<>>)
    ELSE Result(NilError, <<>>)

StringSchema_LengthFn(fn, v) ==
    IF Len(v) # fn.length
    THEN Result(Errorf("length must be exactly " \o ToString(fn.length)), <<>>)
    ELSE Result(NilError, <<>>)

\* regexp.Compile on the patterns used here: the compiled expression, or
\* the error of a pattern that has no closing bracket.  Where a message of
\* the code has a back quote, the message here has '.
Compile(pattern) ==
    IF pattern \in {"^a+$", "^aa$"}
    THEN [re |-> pattern, err |-> NilError]
    ELSE [re |-> "", err |-> Errorf("error parsing regexp: missing closing ]: '"
                                       \o pattern \o "'")]

\* re.MatchString(v), v a string of the letter a.
MatchString(re, v) ==
    CASE re = "^a+$" -> v # ""
      [] re = "^aa$" -> v = "aa"

StringSchema_Regexp(s, re) ==
    [s EXCEPT !.Schema.validators = Append(@, [kind |-> "StringSchema.Regexp", re |-> re])]

StringSchema_RegexpFn(fn, v) ==
    IF ~MatchString(fn.re, v)
    THEN Result(Errorf("string must match pattern \"" \o fn.re \o "\""), <<>>)
    ELSE Result(NilError, <<>>)

\* A Validate whose required check forgets to look at the value.
StringSchema_ValidateAnyValue(s, value) ==
    IF s.required
    THEN Result(ErrValueRequired, <<>>)
    ELSE Schema_Validate(s.Schema, value)

StringSchema_Validate(s, value) ==
    IF value = "" /\ s.required
    THEN Result(ErrValueRequired, <<>>)
    ELSE Schema_Validate(s.Schema, value)

----------------------------------------------------------------------------
(* Number schema: number.go.  T ranges over the integer and the float      *)
(* types; a value is an integer or, for a float type, NaN.  The operators  *)
(* ==, < and > are Go's, for which every comparison with NaN is false.     *)

Num(n) == [nan |-> FALSE, val |-> n]
NaN == [nan |-> TRUE, val |-> 0]
Zero == Num(0)

NumEq(a, b) == ~a.nan /\ ~b.nan /\ a.val = b.val
NumLt(a, b) == ~a.nan /\ ~b.nan /\ a.val < b.val
NumGt(a, b) == ~a.nan /\ ~b.nan /\ a.val > b.val

\* fmt's %v of a number.
FormatV(x) == IF x.nan THEN "NaN" ELSE ToString(x.val)

Number == [Schema |-> New, required |-> FALSE]

NumberSchema_Required(s) == [s EXCEPT !.required = TRUE]

\* A Validate that runs the predicate chain before the required check.
NumberSchema_ValidateChainFirst(s, value) ==
    LET r == Schema_Validate(s.Schema, value)
    IN  IF r.err # NilError THEN r
        ELSE IF NumEq(value, Zero) /\ s.required
             THEN Result(ErrValueRequired, r.calls)
             ELSE r

NumberSchema_Validate(s, value) ==
    IF NumEq(value, Zero) /\ s.required
    THEN Result(ErrValueRequired, <<>>)
    ELSE Schema_Validate(s.Schema, value)

NumberSchema_Min(s, min) ==
    [s EXCEPT !.Schema.validators = Append(@, [kind |-> "NumberSchema.Min", min |-> min])]

NumberSchema_Max(s, max) ==
    [s EXCEPT !.Schema.validators = Append(@, [kind |-> "NumberSchema.Max", max |-> max])]

NumberSchema_MinFn(fn, v) ==
    IF NumLt(v, fn.min)
    THEN Result(Errorf("value must be at least " \o FormatV(fn.min)), <<>>)
    ELSE Result(NilError, <<>>)

NumberSchema_MaxFn(fn, v) ==
    IF NumGt(v, fn.max)
    THEN Result(Errorf("value must be at most " \o FormatV(fn.max)), <<>>)
    ELSE Result(NilError, <<>>)

----------------------------------------------------------------------------
(* Values of type any: a dynamic type and the value of that type. *)

AnyValue(t, n, s) == [t |-> t, num |-> n, str |-> s]
I64(n) == AnyValue("int64", Num(n), "")
F64(x) == AnyValue("float64", x, "")
AnyString(s) == AnyValue("string", Zero, s)
AnyNil == AnyValue("nil", Zero, "")

\* Go's == on two values of type any: the same dynamic type and equal values.
AnyEq(a, b) ==
    /\ a.t = b.t
    /\ CASE a.t \in {"int64", "float64"} -> NumEq(a.num, b.num)
         [] a.t = "string" -> a.str = b.str
         [] OTHER -> TRUE

\* json.Marshal of a value of type any: the encoding, or an error.  A float
\* with an integral value is written without a fraction; NaN has no encoding.
Marshal(v) ==
    CASE v.t = "int64" -> [err |-> NilError, key |-> ToString(v.num.val)]
      [] v.t = "float64" ->
            IF v.num.nan
            THEN [err |-> Errorf("json: unsupported value: NaN"), key |-> ""]
            ELSE [err |-> NilError, key |-> ToString(v.num.val)]
      [] v.t = "string" -> [err |-> NilError, key |-> "\"" \o v.str \o "\""]
      [] OTHER -> [err |-> NilError, key |-> "null"]

----------------------------------------------------------------------------
(* JSON Schema adapter, the predicate of an integer node.  The closure     *)
(* captures numSchema, the Number[int64] schema built from the node.       *)

MaxInt64 == 2 ^ (IntBits - 1) - 1
MinInt64 == -(2 ^ (IntBits - 1))

\* int64(x) of an unsigned x of the same width: the bits reinterpreted.
Int64OfUint(x) == IF x.val > MaxInt64 THEN Num(x.val - 2 ^ IntBits) ELSE x

\* The predicate without the range check of the uint64 and uint cases.
IntegerNode_FnUnchecked(numSchema, value) ==
    CASE value.t \in {"int64", "int32", "int16", "int8", "int", "float64"} ->
            NumberSchema_Validate(numSchema, value.num)
      [] value.t \in {"uint64", "uint32", "uint16", "uint8", "uint"} ->
            NumberSchema_Validate(numSchema, Int64OfUint(value.num))
      [] value.t = "nil" -> NumberSchema_Validate(numSchema, Zero)
      [] OTHER -> Result(Errorf("expected integer value, got " \o value.t), <<>>)

\* The predicate with the cases of the signed types only.
IntegerNode_FnSignedOnly(numSchema, value) ==
    CASE value.t \in {"int64", "int32", "int16", "int8", "int"} ->
            NumberSchema_Validate(numSchema, value.num)
      [] value.t = "nil" -> NumberSchema_Validate(numSchema, Zero)
      [] OTHER -> Result(Errorf("expected integer value, got " \o value.t), <<>>)

IntegerNode_Fn(numSchema, value) ==
    CASE value.t \in {"int64", "int32", "int16", "int8", "int"} ->
            NumberSchema_Validate(numSchema, value.num)
      [] value.t \in {"uint64", "uint"} ->
            IF value.num.val > MaxInt64
            THEN Result(Errorf(value.t \o " value " \o ToString(value.num.val)
                                  \o " exceeds maximum int64"), <<>>)
            ELSE NumberSchema_Validate(numSchema, Int64OfUint(value.num))
      [] value.t \in {"uint32", "uint16", "uint8"} ->
            NumberSchema_Validate(numSchema, Int64OfUint(value.num))
      [] value.t = "float64" ->
            IF value.num.nan
            THEN Result(Errorf("expected integer value, got float with fractional part: "
                                  \o FormatV(value.num)), <<>>)
            ELSE IF value.num.val > MaxInt64 \/ value.num.val < MinInt64
            THEN Result(Errorf("float value " \o FormatV(value.num)
                                  \o " exceeds int64 range"), <<>>)
            ELSE NumberSchema_Validate(numSchema, value.num)
      [] value.t = "nil" -> NumberSchema_Validate(numSchema, Zero)
      [] OTHER -> Result(Errorf("expected integer value, got " \o value.t), <<>>)

----------------------------------------------------------------------------
(* Pointer schema.  A *string is nil or points to a string. *)

NilPtr == [isNil |-> TRUE, elem |-> ""]
PtrTo(s) == [isNil |-> FALSE, elem |-> s]

Pointer == [Schema |-> New, required |-> FALSE]

PointerSchema_Required(s) == [s EXCEPT !.required = TRUE]

PointerSchema_Custom(s, fn) == [s EXCEPT !.Schema = Schema_Custom(@, fn)]

\* A Validate for which a nil pointer that is not required is valid at once.
PointerSchema_ValidateSkipNil(s, value) ==
    IF value.isNil
    THEN Result(IF s.required THEN ErrValueRequired ELSE NilError, <<>>)
    ELSE Schema_Validate(s.Schema, value)

\* A Validate that rejects the nil pointer whether required or not.
PointerSchema_ValidateNilRejected(s, value) ==
    IF value.isNil
    THEN Result(ErrValueRequired, <<>>)
    ELSE Schema_Validate(s.Schema, value)

PointerSchema_Validate(s, value) ==
    IF value.isNil /\ s.required
    THEN Result(ErrValueRequired, <<>>)
    ELSE Schema_Validate(s.Schema, value)

\* A closure that holds a copy of the inner schema taken when it was new.
Deref_Copy(ref) == CASE ref = "str" -> String

\* The schema a reference designates: Ptr's closure holds the inner schema
\* by reference, so it sees the schema as it is when Validate runs.
Deref(ref) == CASE ref = "str" -> str

Ptr(schema) == PointerSchema_Custom(Pointer, [kind |-> "Ptr", schema |-> schema])

\* Ptr's closure without the dereference: the inner schema never runs.
Ptr_FnNoInner(fn, value) == Result(NilError, <<>>)

\* *value: a nil pointer has nothing to yield, the run panics.
Star(value) ==
    IF value.isNil
    THEN [elem |-> "", panic |-> <<Panic("runtime error: invalid memory address or nil pointer dereference")>>]
    ELSE [elem |-> value.elem, panic |-> <<>>]

\* Ptr's closure without the test for nil.
Ptr_FnUnguarded(fn, value) ==
    LET v == Star(value)
    IN  IF v.panic # <<>>
        THEN Result(v.panic[1], <<>>)
        ELSE LET r == StringSchema_Validate(Deref(fn.schema), v.elem)
             IN  Result(r.err, <<Event("schema.Validate", 0)>> \o r.calls)

Ptr_Fn(fn, value) ==
    IF value.isNil
    THEN Result(NilError, <<>>)
    ELSE LET v == Star(value)
         IN  IF v.panic # <<>>
             THEN Result(v.panic[1], <<>>)
             ELSE LET r == StringSchema_Validate(Deref(fn.schema), v.elem)
                  IN  Result(r.err, <<Event("schema.Validate", 0)>> \o r.calls)

----------------------------------------------------------------------------
(* Array schema: array.go.  A []any is nil or a sequence of items. *)

NilSlice == [isNil |-> TRUE, items |-> <<>>]
Slice(items) == [isNil |-> FALSE, items |-> items]

Array == [Schema |-> New, itemValidator |-> <<>>]

ArraySchema_Items(s, validator) ==
    [s EXCEPT !.itemValidator = <<validator>>,
              !.Schema.validators =
                  Append(@, [kind |-> "ArraySchema.Items", validator |-> validator])]

\* The loop of the Items closure from the item at (0-based) index i on.
RECURSIVE ItemsFrom(_, _, _)
ItemsFrom(validator, items, i) ==
    IF i >= Len(items)
    THEN Result(NilError, <<>>)
    ELSE LET r    == Call(validator, items[i + 1])
             here == <<Event("item", i)>> \o r.calls
         IN  IF r.err # NilError
             THEN Result(Wrapf("invalid item at index " \o ToString(i) \o ": ", r.err),
                         here)
             ELSE LET rest == ItemsFrom(validator, items, i + 1)
                  IN  Result(rest.err, here \o rest.calls)

\* An Items loop that validates every item and reports the last one rejected.
RECURSIVE ItemsAllFrom(_, _, _)
ItemsAllFrom(validator, items, i) ==
    IF i >= Len(items)
    THEN Result(NilError, <<>>)
    ELSE LET r    == Call(validator, items[i + 1])
             here == <<Event("item", i)>> \o r.calls
             rest == ItemsAllFrom(validator, items, i + 1)
         IN  Result(IF rest.err # NilError THEN rest.err
                    ELSE IF r.err # NilError
                         THEN Wrapf("invalid item at index " \o ToString(i) \o ": ", r.err)
                         ELSE NilError,
                    here \o rest.calls)

ArraySchema_ItemsFnAll(fn, arr_) == ItemsAllFrom(fn.validator, arr_.items, 0)

\* An Items closure that formats the item's error into its message and does
\* not wrap it.
ArraySchema_ItemsFnOpaque(fn, arr_) ==
    LET bad == {i \in 0 .. Len(arr_.items) - 1 :
                   Call(fn.validator, arr_.items[i + 1]).err # NilError}
    IN  IF bad = {}
        THEN Result(NilError, <<>>)
        ELSE LET i == CHOOSE x \in bad : \A y \in bad : x <= y
             IN  Result(Errorf("invalid item at index " \o ToString(i) \o ": "
                                  \o Call(fn.validator, arr_.items[i + 1]).err.msg),
                        <<>>)

ArraySchema_ItemsFn(fn, arr_) == ItemsFrom(fn.validator, arr_.items, 0)

ArraySchema_Min(s, min) ==
    [s EXCEPT !.Schema.validators = Append(@, [kind |-> "ArraySchema.Min", min |-> min])]

ArraySchema_MinFn(fn, arr_) ==
    IF Len(arr_.items) < fn.min
    THEN Result(Errorf("array length must be at least " \o ToString(fn.min)), <<>>)
    ELSE Result(NilError, <<>>)

ArraySchema_Max(s, max) ==
    [s EXCEPT !.Schema.validators = Append(@, [kind |-> "ArraySchema.Max", max |-> max])]

ArraySchema_MaxFn(fn, arr_) ==
    IF Len(arr_.items) > fn.max
    THEN Result(Errorf("array length must be at most " \o ToString(fn.max)), <<>>)
    ELSE Result(NilError, <<>>)

ArraySchema_Length(s, length) ==
    [s EXCEPT !.Schema.validators =
        Append(@, [kind |-> "ArraySchema.Length", length |-> length])]

ArraySchema_LengthFn(fn, arr_) ==
    IF Len(arr_.items) # fn.length
    THEN Result(Errorf("array length must be exactly " \o ToString(fn.length)), <<>>)
    ELSE Result(NilError, <<>>)

ArraySchema_UniqueItems(s) ==
    [s EXCEPT !.Schema.validators = Append(@, [kind |-> "ArraySchema.UniqueItems"])]

\* The loop of the UniqueItems closure from index i on; seen holds the keys
\* of the items before i.
RECURSIVE UniqueFrom(_, _, _)
UniqueFrom(items, i, seen) ==
    IF i >= Len(items)
    THEN Result(NilError, <<>>)
    ELSE LET m == Marshal(items[i + 1])
         IN  IF m.err # NilError
             THEN Result(Wrapf("failed to marshal array item for uniqueness check at index "
                                   \o ToString(i) \o ": ", m.err), <<>>)
             ELSE IF m.key \in seen
                  THEN Result(Errorf("array items must be unique (duplicate found at index "
                                         \o ToString(i) \o ")"), <<>>)
                  ELSE UniqueFrom(items, i + 1, seen \cup {m.key})

ArraySchema_UniqueItemsFn(fn, arr_) == UniqueFrom(arr_.items, 0, {})

\* A Validate that takes a nil slice to be valid without looking further.
ArraySchema_ValidateNilValid(s, value) ==
    IF value.isNil
    THEN Result(NilError, <<>>)
    ELSE Schema_Validate(s.Schema, value)

ArraySchema_Validate(s, value) ==
    IF value.isNil
    THEN ValidateFrom(s.Schema.validators, Slice(<<>>), 1)
    ELSE Schema_Validate(s.Schema, value)

----------------------------------------------------------------------------
(* Object schema: object.go.  T is the schema's type parameter, any or     *)
(* map[string]any here.  A Go map is a function on its set of keys; the    *)
(* order in which range visits the keys is not specified, so a Validate    *)
(* has one result for each order, and the operators below yield the set of *)
(* the results a run of the code can produce.                              *)

AnyType == "any"
MapType == "map[string]interface {}"

\* A map[string]any with the entries of m, and the nil map.
MapValue(m) == [t |-> MapType, num |-> Zero, str |-> "", isNil |-> FALSE, m |-> m]
NilMap == [t |-> MapType, num |-> Zero, str |-> "", isNil |-> TRUE, m |-> <<>>]

\* A struct value, User{Name: name}.
User(name) == AnyValue("valtor_test.User", Zero, name)

\* values[key]: nil when the key is absent.
Lookup(values, key) == IF key \in DOMAIN values.m THEN values.m[key] ELSE AnyNil

\* An assignment that keeps the value a key already has.
Put_KeepFirst(m, k, v) ==
    [n \in DOMAIN m \cup {k} |-> IF n \in DOMAIN m THEN m[n] ELSE v]

\* m[k] = v on a Go map.
Put(m, k, v) == [n \in DOMAIN m \cup {k} |-> IF n = k THEN v ELSE m[n]]

\* typedValue, _ := value.(T): the value when its dynamic type is T, else
\* the zero value of T.
\* A type assertion that hands on the value whatever its type.
TypeAssert_Any(T, value) == value

TypeAssert(T, value) ==
    IF T = AnyType THEN value
    ELSE IF value.t = T THEN value
    ELSE NilMap

Object(T) == [Schema |-> New, fieldValidators |-> <<>>, T |-> T]

ObjectSchema_Field(s, fieldName, validateFn) ==
    [s EXCEPT !.fieldValidators =
        Put(@, fieldName, [kind |-> "ObjectSchema.Field", T |-> s.T,
                           fieldName |-> fieldName, validateFn |-> validateFn])]

\* The loop of Map: range visits the keys of fieldValidators in the given
\* order, from its i-th key on, and Field registers each.
RECURSIVE MapFrom(_, _, _, _)
MapFrom(s, fieldValidators, order, i) ==
    IF i > Len(order) THEN s
    ELSE MapFrom(ObjectSchema_Field(s, order[i], fieldValidators[order[i]]),
                 fieldValidators, order, i + 1)

\* One invocation of a field's validateFn: the argument it was given and the
\* closures invoked in the course of it.
FieldEvent(fieldName, arg, calls) ==
    [fn |-> "validateFn", field |-> fieldName, arg |-> arg, calls |-> calls]

\* The orders in which range can visit the keys of m.
Orders(m) ==
    LET n == Cardinality(DOMAIN m)
    IN  {o \in [1 .. n -> DOMAIN m] : \A i, j \in 1 .. n : o[i] = o[j] => i = j}

\* The schemas Map can leave, one for each order of the range.
ObjectSchema_Map(s, fieldValidators) ==
    {MapFrom(s, fieldValidators, order, 1) : order \in Orders(fieldValidators)}

RECURSIVE ObjectSchema_Validate(_, _)
RECURSIVE Schema_ValidateOrders(_, _)

\* The results of a validateFn: the Validate of an object schema, and that
\* of a schema with an object schema behind a predicate, has one result for
\* each order; any other closure has one result.
ValidateFn_Call(validateFn, v) ==
    CASE validateFn.kind = "ObjectSchema.Validate" ->
            ObjectSchema_Validate(validateFn.schema, v)
      [] validateFn.kind = "Schema.Validate" ->
            Schema_ValidateOrders(validateFn.schema, v)
      [] OTHER -> {Call(validateFn, v)}

\* A field closure that returns the inner error as it is.
Field_NoWrap(fn, typedValue, r) ==
    Result(r.err, <<FieldEvent(fn.fieldName, typedValue, r.calls)>>)

Field_Wrap(fn, typedValue, r) ==
    Result(IF r.err # NilError
           THEN Wrapf("validation failed for field \"" \o fn.fieldName \o "\": ", r.err)
           ELSE NilError,
           <<FieldEvent(fn.fieldName, typedValue, r.calls)>>)

ObjectSchema_FieldFn(fn, value) ==
    LET typedValue == TypeAssert(fn.T, value)
    IN  {Field_Wrap(fn, typedValue, r) : r \in ValidateFn_Call(fn.validateFn, typedValue)}

\* The loop of Validate (byKey = FALSE: every validator gets the value) and
\* of ValidateMap (byKey = TRUE: it gets values[fieldName]), visiting the
\* field validators in the given order from its i-th key on.
RECURSIVE FieldsFrom(_, _, _, _, _)
FieldsFrom(fieldValidators, value, byKey, order, i) ==
    IF i > Len(order)
    THEN {Result(NilError, <<>>)}
    ELSE LET fieldName == order[i]
             arg == IF byKey THEN Lookup(value, fieldName) ELSE value
         IN  UNION {IF r.err # NilError
                    THEN {r}
                    ELSE {Result(q.err, r.calls \o q.calls) :
                             q \in FieldsFrom(fieldValidators, value, byKey, order, i + 1)} :
                    r \in ObjectSchema_FieldFn(fieldValidators[fieldName], arg)}

\* A Validate that looks at the first field validator range yields only.
ObjectSchema_ValidateFirstOnly(s, value) ==
    UNION {FieldsFrom(s.fieldValidators, value, value.t = MapType,
                      IF order = <<>> THEN order ELSE <<order[1]>>, 1) :
              order \in Orders(s.fieldValidators)}

ObjectSchema_ValidateMap(s, values) ==
    UNION {FieldsFrom(s.fieldValidators, values, TRUE, order, 1) :
              order \in Orders(s.fieldValidators)}

ObjectSchema_Validate(s, value) ==
    IF value.t = MapType
    THEN ObjectSchema_ValidateMap(s, value)
    ELSE UNION {FieldsFrom(s.fieldValidators, value, FALSE, order, 1) :
                   order \in Orders(s.fieldValidators)}

----------------------------------------------------------------------------
(* Null schema: null.go.  Bool schema: bool.go. *)

Null == [Schema |-> New]

\* A Validate that runs the predicate chain before the null check.
NullSchema_ValidateChainFirst(s, value) ==
    LET r == Schema_Validate(s.Schema, value)
    IN  IF r.err # NilError THEN r
        ELSE IF value # AnyNil
             THEN Result(Errorf("expected null value, got " \o value.t), r.calls)
             ELSE r

\* value != nil compares the interface value: a nil map held in an any is
\* not nil.  %T prints the dynamic type, which the t of a value names.
NullSchema_Validate(s, value) ==
    IF value # AnyNil
    THEN Result(Errorf("expected null value, got " \o value.t), <<>>)
    ELSE Schema_Validate(s.Schema, value)

Bool == [Schema |-> New]

BoolSchema_Validate(s, value) == Schema_Validate(s.Schema, value)

----------------------------------------------------------------------------
(* JSON Schema adapter: parseJSONSchema.  A jsonschema.Schema node is the  *)
(* record of the fields the adapter reads.  A pointer field is <<>> when    *)
(* nil and <<x>> when it points to x.  Properties is the ordered map as the *)
(* sequence of its pairs, oldest first; an object node always has one.      *)

Node(Type) ==
    [Type |-> Type, MinLength |-> <<>>, MaxLength |-> <<>>, Pattern |-> "",
     Minimum |-> "", Maximum |-> "", Items |-> <<>>, MinItems |-> <<>>,
     MaxItems |-> <<>>, UniqueItems |-> FALSE, Properties |-> <<>>,
     Required |-> <<>>]

Pair(Key, Value) == [Key |-> Key, Value |-> Value]

\* slices.Contains
Contains(q, x) == \E i \in 1 .. Len(q) : q[i] = x

ErrInvalidType == [msg |-> "invalid type", id |-> "ErrInvalidType", cause |-> <<>>]

\* A float64 with an integral or a half-integral value is held as its
\* number of halves.  The decimal notation of such a value:
FormatHalves(h) ==
    IF h % 2 = 0 THEN ToString(h \div 2) ELSE ToString(h \div 2) \o ".5"

Halves == 0 .. 2 * MaxValue + 1

\* json.Number.Float64: strconv.ParseFloat of the text.
Float64(n) ==
    IF \E h \in Halves : n = FormatHalves(h)
    THEN [halves |-> CHOOSE h \in Halves : n = FormatHalves(h), err |-> NilError]
    ELSE [halves |-> 0,
          err |-> Errorf("strconv.ParseFloat: parsing \"" \o n \o "\": invalid syntax")]

\* A conversion that drops the fraction of the minimum.
Ceil_Truncated(halves) == Num(halves \div 2)

\* int64(math.Ceil(f)) and int64(math.Floor(f)).
Ceil(halves) == Num((halves + 1) \div 2)
Floor(halves) == Num(halves \div 2)

\* The float64 itself, for an integral value.
Float(halves) == Num(halves \div 2)

\* The values of type any with a boolean or a []any inside.
AnyBool(b) == [t |-> "bool", num |-> Zero, str |-> "", b |-> b]
SliceType == "[]interface {}"
SliceValue(items) == [t |-> SliceType, num |-> Zero, str |-> "", isNil |-> FALSE, items |-> items]
NilSliceValue == [t |-> SliceType, num |-> Zero, str |-> "", isNil |-> TRUE, items |-> <<>>]

\* What parseJSONSchema returns: the schema and a nil error, or a nil schema
\* and the error.
Parsed(fn) == [schema |-> <<Schema_Custom(New, fn)>>, err |-> NilError]
Failed(err) == [schema |-> <<>>, err |-> err]

\* The method value schema.Validate.
MethodValidate(schema) == [kind |-> "Schema.Validate", schema |-> schema]

\* The item and size constraints of an array node, applied to arrSchema.
ArrayNode_Constraints(arrSchema, schema) ==
    LET a == IF schema.MinItems # <<>>
             THEN ArraySchema_Min(arrSchema, schema.MinItems[1]) ELSE arrSchema
        b == IF schema.MaxItems # <<>> THEN ArraySchema_Max(a, schema.MaxItems[1]) ELSE a
    IN  IF schema.UniqueItems THEN ArraySchema_UniqueItems(b) ELSE b

ArrayNode_Closure(arrSchema, schema, required) ==
    [kind |-> "parseJSONSchema.array", arrSchema |-> arrSchema,
     required |-> required, MinItems |-> schema.MinItems]

\* The array predicate with a nil case that looks at the required flag only.
ArrayNode_FnRequiredOnly(fn, value) ==
    CASE value.t = SliceType ->
            ArraySchema_Validate(fn.arrSchema,
                                 IF value.isNil THEN NilSlice ELSE Slice(value.items))
      [] value.t = "nil" ->
            IF fn.required THEN Result(ErrValueRequired, <<>>) ELSE Result(NilError, <<>>)
      [] OTHER -> Result(Errorf("expected array value, got " \o value.t), <<>>)

ArrayNode_Fn(fn, value) ==
    CASE value.t = SliceType ->
            ArraySchema_Validate(fn.arrSchema,
                                 IF value.isNil THEN NilSlice ELSE Slice(value.items))
      [] value.t = "nil" ->
            IF fn.required /\ fn.MinItems # <<>> /\ fn.MinItems[1] > 0
            THEN Result(ErrValueRequired, <<>>)
            ELSE Result(NilError, <<>>)
      [] OTHER -> Result(Errorf("expected array value, got " \o value.t), <<>>)

NullNode_Fn(fn, value) == NullSchema_Validate(fn.nullSchema, value)

BooleanNode_Fn(fn, value) ==
    CASE value.t = "bool" -> BoolSchema_Validate(fn.boolSchema, value.b)
      [] value.t = "nil" ->
            IF fn.required THEN Result(ErrValueRequired, <<>>) ELSE Result(NilError, <<>>)
      [] OTHER -> Result(Errorf("expected boolean value, got " \o value.t), <<>>)

\* The string predicate with a nil case that accepts.
StringNode_FnNilValid(fn, value) ==
    CASE value.t = "string" -> StringSchema_Validate(fn.strSchema, value.str)
      [] value.t = "nil" -> Result(NilError, <<>>)
      [] OTHER -> Result(Errorf("expected string value, got " \o value.t), <<>>)

StringNode_Fn(fn, value) ==
    CASE value.t = "string" -> StringSchema_Validate(fn.strSchema, value.str)
      [] value.t = "nil" -> StringSchema_Validate(fn.strSchema, "")
      [] OTHER -> Result(Errorf("expected string value, got " \o value.t), <<>>)

NumberNode_Fn(fn, value) ==
    CASE value.t \in {"float64", "int64", "int32", "int16", "int8", "int",
                      "uint64", "uint32", "uint16", "uint8", "uint"} ->
            NumberSchema_Validate(fn.numSchema, value.num)
      [] value.t = "nil" -> NumberSchema_Validate(fn.numSchema, Zero)
      [] OTHER -> Result(Errorf("expected numeric value, got " \o value.t), <<>>)

\* An object closure that takes mappings only.
ObjectNode_FnMapsOnly(fn, value) ==
    IF value.t = MapType
    THEN ObjectSchema_ValidateMap(fn.objSchema, value)
    ELSE {Result(Errorf("expected object value, got " \o value.t), <<>>)}

\* The predicate of an object node: one result for each order in which
\* objSchema may visit its fields.
ObjectNode_Fn(fn, value) == ObjectSchema_Validate(fn.objSchema, value)

RECURSIVE parseJSONSchema(_, _)

\* The loop over the properties of an object node from its i-th pair on.
RECURSIVE PropertiesFrom(_, _, _)
PropertiesFrom(schema, objSchema, i) ==
    IF i > Len(schema.Properties)
    THEN Parsed([kind |-> "parseJSONSchema.object", objSchema |-> objSchema])
    ELSE LET pair == schema.Properties[i]
         IN  IF pair.Value = <<>>
             THEN PropertiesFrom(schema, objSchema, i + 1)
             ELSE LET fieldRequired == Contains(schema.Required, pair.Key)
                      field == parseJSONSchema(pair.Value[1], fieldRequired)
                  IN  IF field.err # NilError
                      THEN Failed(Wrapf("invalid schema for property \"" \o pair.Key
                                           \o "\": ", field.err))
                      ELSE PropertiesFrom(schema,
                               ObjectSchema_Field(objSchema, pair.Key,
                                                  MethodValidate(field.schema[1])),
                               i + 1)

\* The string case.
StringNode_Parse(schema, required) ==
    LET a == IF schema.MinLength # <<>>
             THEN StringSchema_Min(String, schema.MinLength[1]) ELSE String
        b == IF schema.MaxLength # <<>> THEN StringSchema_Max(a, schema.MaxLength[1]) ELSE a
        c == Compile(schema.Pattern)
        d == IF schema.Pattern # "" THEN StringSchema_Regexp(b, c.re) ELSE b
        e == IF required THEN StringSchema_Required(d) ELSE d
    IN  IF schema.Pattern # "" /\ c.err # NilError
        THEN Failed(Wrapf("invalid pattern \"" \o schema.Pattern \o "\": ", c.err))
        ELSE Parsed([kind |-> "parseJSONSchema.string", strSchema |-> e])

\* The integer case.
IntegerNode_Parse(schema, required) ==
    LET min == Float64(schema.Minimum)
        max == Float64(schema.Maximum)
        a == IF schema.Minimum # "" THEN NumberSchema_Min(Number, Ceil(min.halves)) ELSE Number
        b == IF schema.Maximum # "" THEN NumberSchema_Max(a, Floor(max.halves)) ELSE a
        c == IF required THEN NumberSchema_Required(b) ELSE b
    IN  IF schema.Minimum # "" /\ min.err # NilError
        THEN Failed(Errorf("invalid 'minimum' value \"" \o schema.Minimum \o "\""))
        ELSE IF schema.Maximum # "" /\ max.err # NilError
        THEN Failed(Errorf("invalid 'maximum' value \"" \o schema.Maximum \o "\""))
        ELSE Parsed([kind |-> "parseJSONSchema.integer", numSchema |-> c])

\* The number case.
NumberNode_Parse(schema, required) ==
    LET min == Float64(schema.Minimum)
        max == Float64(schema.Maximum)
        a == IF schema.Minimum # "" THEN NumberSchema_Min(Number, Float(min.halves)) ELSE Number
        b == IF schema.Maximum # "" THEN NumberSchema_Max(a, Float(max.halves)) ELSE a
        c == IF required THEN NumberSchema_Required(b) ELSE b
    IN  IF schema.Minimum # "" /\ min.err # NilError
        THEN Failed(Wrapf("invalid 'minimum' \"" \o schema.Minimum \o "\": ", min.err))
        ELSE IF schema.Maximum # "" /\ max.err # NilError
        THEN Failed(Wrapf("invalid 'maximum' \"" \o schema.Maximum \o "\": ", max.err))
        ELSE Parsed([kind |-> "parseJSONSchema.number", numSchema |-> c])

\* An array case that drops the items of a node whose item schema is invalid.
ArrayNode_ParseLenient(schema, required) ==
    IF schema.Items = <<>> \/ parseJSONSchema(schema.Items[1], FALSE).err # NilError
    THEN Parsed(ArrayNode_Closure(ArrayNode_Constraints(Array, schema), schema, required))
    ELSE Parsed(ArrayNode_Closure(
             ArrayNode_Constraints(
                 ArraySchema_Items(Array,
                     MethodValidate(parseJSONSchema(schema.Items[1], FALSE).schema[1])),
                 schema),
             schema, required))

\* The array case.
ArrayNode_Parse(schema, required) ==
    IF schema.Items = <<>>
    THEN Parsed(ArrayNode_Closure(ArrayNode_Constraints(Array, schema), schema, required))
    ELSE LET item == parseJSONSchema(schema.Items[1], FALSE)
         IN  IF item.err # NilError
             THEN Failed(Wrapf("invalid item schema: ", item.err))
             ELSE Parsed(ArrayNode_Closure(
                      ArrayNode_Constraints(
                          ArraySchema_Items(Array, MethodValidate(item.schema[1])), schema),
                      schema, required))

parseJSONSchema(schema, required) ==
    CASE schema.Type = "null" ->
            Parsed([kind |-> "parseJSONSchema.null", nullSchema |-> Null])
      [] schema.Type = "boolean" ->
            Parsed([kind |-> "parseJSONSchema.boolean", boolSchema |-> Bool,
                    required |-> required])
      [] schema.Type = "array" -> ArrayNode_Parse(schema, required)
      [] schema.Type = "string" -> StringNode_Parse(schema, required)
      [] schema.Type = "integer" -> IntegerNode_Parse(schema, required)
      [] schema.Type = "number" -> NumberNode_Parse(schema, required)
      [] schema.Type = "object" -> PropertiesFrom(schema, Object(AnyType), 1)
      [] OTHER -> Failed(ErrInvalidType)

ParseJSONSchema(schema) == parseJSONSchema(schema, FALSE)

\* The results of a predicate: an object node's has one for each order.
CallOrders(fn, v) ==
    IF fn.kind = "parseJSONSchema.object" THEN ObjectNode_Fn(fn, v) ELSE {Call(fn, v)}

\* The loop of Schema.Validate from validator i on, for each order.
RECURSIVE ValidateOrdersFrom(_, _, _)
ValidateOrdersFrom(validators, value, i) ==
    IF i > Len(validators)
    THEN {Result(NilError, <<>>)}
    ELSE UNION {LET here == <<Event("validator", i)>> \o r.calls
                IN  IF r.err # NilError
                    THEN {Result(r.err, here)}
                    ELSE {Result(rest.err, here \o rest.calls) :
                             rest \in ValidateOrdersFrom(validators, value, i + 1)} :
                r \in CallOrders(validators[i], value)}

Schema_ValidateOrders(s, value) == ValidateOrdersFrom(s.validators, value, 1)

\* Before ParseJSONSchema was called there is no document and no schema.
Unparsed == [node |-> <<>>, schema |-> <<>>]

----------------------------------------------------------------------------
(* Goroutines that call Validate.  A call in progress is at the loop of    *)
(* Schema.Validate over the validators ("loop", about to call validator    *)
(* i), inside the UniqueItems closure ("unique", about to look at item j,  *)
(* seen being the closure's local map), at the loop of Object.Validate     *)
(* over the field validators ("fields", range having chosen order), or has *)
(* its result ("done").                                                    *)

Threads == 1 .. MaxThreads

Idle ==
    [pc |-> "idle", on |-> "none", value |-> NilSlice, order |-> <<>>,
     i |-> 0, j |-> 0, seen |-> {}, err |-> NilError]

Done(thread, err) == [thread EXCEPT !.pc = "done", !.err = err]

----------------------------------------------------------------------------
(* Closure application. *)

Call(fn, v) ==
    CASE fn.kind = "Custom" -> CustomFn_Call(fn, v)
      [] fn.kind = "StringSchema.Min" -> StringSchema_MinFn(fn, v)
      [] fn.kind = "StringSchema.Max" -> StringSchema_MaxFn(fn, v)
      [] fn.kind = "StringSchema.Length" -> StringSchema_LengthFn(fn, v)
      [] fn.kind = "NumberSchema.Min" -> NumberSchema_MinFn(fn, v)
      [] fn.kind = "NumberSchema.Max" -> NumberSchema_MaxFn(fn, v)
      [] fn.kind = "StringSchema.Regexp" -> StringSchema_RegexpFn(fn, v)
      [] fn.kind = "parseJSONSchema.integer" ->
            IntegerNode_Fn(IF "numSchema" \in DOMAIN fn THEN fn.numSchema ELSE num, v)
      [] fn.kind = "parseJSONSchema.null" -> NullNode_Fn(fn, v)
      [] fn.kind = "parseJSONSchema.boolean" -> BooleanNode_Fn(fn, v)
      [] fn.kind = "parseJSONSchema.array" -> ArrayNode_Fn(fn, v)
      [] fn.kind = "parseJSONSchema.string" -> StringNode_Fn(fn, v)
      [] fn.kind = "parseJSONSchema.number" -> NumberNode_Fn(fn, v)
      [] /\ fn.kind = "parseJSONSchema.object"
         /\ Cardinality(DOMAIN fn.objSchema.fieldValidators) <= 1 ->
            \* with at most one field there is one order, and one result
            CHOOSE r \in ObjectNode_Fn(fn, v) : TRUE
      [] fn.kind = "Schema.Validate" -> Schema_Validate(fn.schema, v)
      [] fn.kind = "Ptr" -> Ptr_Fn(fn, v)
      [] fn.kind = "ArraySchema.Items" -> ArraySchema_ItemsFn(fn, v)
      [] fn.kind = "ArraySchema.Min" -> ArraySchema_MinFn(fn, v)
      [] fn.kind = "ArraySchema.Max" -> ArraySchema_MaxFn(fn, v)
      [] fn.kind = "ArraySchema.Length" -> ArraySchema_LengthFn(fn, v)
      [] fn.kind = "ArraySchema.UniqueItems" -> ArraySchema_UniqueItemsFn(fn, v)

\* The schema parseJSONSchema returns for an integer node whose Number
\* schema is num.
IntegerNode == Schema_Custom(New, [kind |-> "parseJSONSchema.integer"])

----------------------------------------------------------------------------
(* The program: the calls made on the schemas, with the values it passes. *)

\* The strings of at most n bytes.
RECURSIVE Strings(_)
Strings(n) ==
    IF n = 0 THEN {""} ELSE LET S == Strings(n - 1) IN S \cup {s \o "a" : s \in S}

\* The sequences over S of at most n elements.
RECURSIVE SeqsUpTo(_, _)
SeqsUpTo(S, n) ==
    IF n = 0 THEN {<<>>}
    ELSE LET R == SeqsUpTo(S, n - 1) IN R \cup {Append(q, x) : q \in R, x \in S}

Lengths == 0 .. MaxLen

BaseValues == 0 .. MaxValue
BaseFns == {CustomFn(S) : S \in SUBSET BaseValues}

StringValues == Strings(MaxLen)
StringFns == {CustomFn({""}), CustomFn({"a"})}

NumberValues == {Num(n) : n \in -1 .. MaxValue} \cup {NaN}
NumberBounds == {Num(n) : n \in 0 .. MaxValue}
NumberFns == {CustomFn({Num(1)})}
IntegerNodeValues == {I64(n) : n \in -1 .. MaxValue} \cup {AnyNil, AnyString("a")}

PointerValues == {NilPtr} \cup {PtrTo(s) : s \in StringValues}
PointerFns == {CustomFn({NilPtr}), CustomFn({PtrTo("")})}

ItemValues == {I64(1), F64(Num(1)), F64(NaN)}
ItemFns == {CustomFn({I64(1)}), CustomFn({F64(Num(1)), F64(NaN)})}
ArrayValues == {NilSlice} \cup {Slice(q) : q \in SeqsUpTo(ItemValues, MaxLen)}

\* The field names a program registers, and the keys of the maps it passes.
FieldNames == {"a", "b"}

\* {"a": {"a": ... {"a": "a"}}}, d maps deep.
RECURSIVE NestedMap(_)
NestedMap(d) ==
    MapValue([n \in {"a"} |-> IF d = 1 THEN AnyString("a") ELSE NestedMap(d - 1)])

FieldValues == {AnyString("a")} \cup {NestedMap(d) : d \in 1 .. MaxDepth - 1}
MapValues == {MapValue(m) : m \in UNION {[D -> FieldValues] : D \in SUBSET FieldNames}}
ObjectValues(T) ==
    IF T = AnyType THEN MapValues \cup {AnyNil, User("a")} ELSE MapValues \cup {NilMap}

\* Field validators a caller writes: one rejects the absent (zero) value,
\* one rejects the name "a".
ObjectCustomFns == {CustomFn({AnyNil, NilMap}), CustomFn({AnyString("a"), User("a")})}

\* Object schemas with one field, nested at most d deep.
RECURSIVE InnerSchemas(_)
InnerSchemas(d) ==
    IF d = 0 THEN {}
    ELSE LET inner == InnerSchemas(d - 1)
         IN  inner
             \cup {ObjectSchema_Field(Object(AnyType), "a", fn) : fn \in ObjectCustomFns}
             \cup {ObjectSchema_Field(Object(AnyType), "a",
                                      [kind |-> "ObjectSchema.Validate", schema |-> s]) :
                      s \in inner}

ObjectFns ==
    ObjectCustomFns
        \cup {[kind |-> "ObjectSchema.Validate", schema |-> s] : s \in InnerSchemas(MaxDepth - 1)}

NullValues ==
    {AnyNil, I64(0), I64(1), AnyString(""), AnyString("a"), F64(NaN), NilMap, MapValue(<<>>)}
NullFns == {CustomFn({}), CustomFn({AnyNil}), CustomFn({AnyString("a")})}

BoolValues == BOOLEAN

\* The documents handed to ParseJSONSchema.  The leaves: nodes without items
\* and properties, with and without constraints, some of them invalid.
StringNodes ==
    {Node("string"),
     [Node("string") EXCEPT !.MinLength = <<1>>],
     [Node("string") EXCEPT !.MinLength = <<1>>, !.MaxLength = <<MaxLen>>, !.Pattern = "^a+$"],
     [Node("string") EXCEPT !.Pattern = "^aa$"],
     [Node("string") EXCEPT !.Pattern = "["]}

IntegerNodes ==
    {Node("integer"),
     [Node("integer") EXCEPT !.Minimum = "1"],
     [Node("integer") EXCEPT !.Minimum = "0", !.Maximum = "1"],
     [Node("integer") EXCEPT !.Minimum = "1.5", !.Maximum = "2.5"],
     [Node("integer") EXCEPT !.Minimum = "0.5"],
     [Node("integer") EXCEPT !.Minimum = "x"],
     [Node("integer") EXCEPT !.Maximum = "x"],
     [Node("integer") EXCEPT !.Pattern = "["]}

NumberNodes ==
    {Node("number"),
     [Node("number") EXCEPT !.Minimum = "1", !.Maximum = "2"],
     [Node("number") EXCEPT !.Minimum = "x"],
     [Node("number") EXCEPT !.Maximum = "x"]}

ArrayNodes ==
    {Node("array"),
     [Node("array") EXCEPT !.MinItems = <<0>>],
     [Node("array") EXCEPT !.MinItems = <<1>>],
     [Node("array") EXCEPT !.MaxItems = <<1>>, !.UniqueItems = TRUE]}

Leaves ==
    StringNodes \cup IntegerNodes \cup NumberNodes \cup ArrayNodes
        \cup {Node("null"), Node("boolean"), Node(""), Node("foo")}

ArrayOf(items, minItems) == [Node("array") EXCEPT !.Items = <<items>>, !.MinItems = minItems]
ObjectOf(properties, required) ==
    [Node("object") EXCEPT !.Properties = properties, !.Required = required]

\* The sub-schemas of the properties of an object node: nil, or a node.
PropertyNodes ==
    {<<>>} \cup
    {<<n>> : n \in {[Node("string") EXCEPT !.MinLength = <<1>>],
                    [Node("string") EXCEPT !.Pattern = "["],
                    [Node("string") EXCEPT !.Pattern = "^aa$"],
                    [Node("integer") EXCEPT !.Minimum = "0", !.Maximum = "1"],
                    [Node("integer") EXCEPT !.Minimum = "1"],
                    [Node("number") EXCEPT !.Minimum = "1", !.Maximum = "2"],
                    Node("number"), Node("boolean"), Node("null"),
                    Node("array"), [Node("array") EXCEPT !.MinItems = <<1>>],
                    Node("")}}

RequiredLists == {<<>>, <<"a">>, <<"a", "b">>}

\* The sub-schemas of the properties of an object node of two properties.
PairedNodes ==
    {<<>>} \cup
    {<<n>> : n \in {[Node("string") EXCEPT !.MinLength = <<1>>],
                    [Node("integer") EXCEPT !.Minimum = "0", !.Maximum = "1"],
                    [Node("array") EXCEPT !.MinItems = <<1>>],
                    Node("")}}

ObjectNodes ==
    {ObjectOf(p, r) :
        p \in {<<>>} \cup {<<Pair(k, v)>> : k \in FieldNames, v \in PropertyNodes}
                \cup {<<Pair("a", v), Pair("b", w)>> : v, w \in PairedNodes},
        r \in RequiredLists}

\* Nodes nested d deep: arrays with items and objects with one required
\* property "a", around a string node or a node of no type.
RECURSIVE NestedNodes(_)
NestedNodes(d) ==
    IF d = 1
    THEN {[Node("string") EXCEPT !.MinLength = <<1>>], Node("")}
    ELSE LET S == NestedNodes(d - 1)
         IN  {ArrayOf(n, m) : n \in S, m \in {<<>>, <<1>>}}
                 \cup {ObjectOf(<<Pair("a", <<n>>)>>, <<"a">>) : n \in S}

Nodes == Leaves \cup ObjectNodes \cup UNION {NestedNodes(d) : d \in 2 .. MaxDepth + 1}

\* The values validated against a parsed schema.
Uint(t, n) == AnyValue(t, Num(n), "")

AdapterFieldValues ==
    {AnyNil, AnyString("a"), I64(0), I64(1), SliceValue(<<>>),
     MapValue([k \in {"a"} |-> AnyString("a")])}

AdapterValues ==
    AdapterFieldValues
        \cup {AnyString(""), AnyString("aa"), I64(MaxValue), I64(MaxValue + 1), AnyBool(TRUE),
              AnyBool(FALSE), NilSliceValue, SliceValue(<<AnyString("a")>>),
              SliceValue(<<I64(1), I64(1)>>), SliceValue(<<AnyString("")>>),
              F64(Num(1)), F64(NaN), F64(Num(MaxInt64 + 1)),
              Uint("uint8", 1), Uint("uint64", MaxInt64), Uint("uint64", MaxInt64 + 1),
              Uint("uint", MaxInt64 + 1), AnyValue("int8", Num(-1), ""),
              AnyValue("int32", Num(1), ""), AnyValue("int16", Num(MaxValue), ""),
              AnyValue("int", Zero, ""), Uint("uint32", MaxValue), Uint("uint16", 1),
              Uint("uint", 0)}
        \cup {SliceValue(<<MapValue(<<>>)>>),
              SliceValue(<<AnyString("a"), AnyString("")>>),
              MapValue([k \in {"a"} |-> SliceValue(<<AnyString("")>>)]),
              MapValue([k \in {"a"} |-> SliceValue(<<MapValue(<<>>)>>)])}
        \cup {MapValue(m) : m \in UNION {[D -> AdapterFieldValues] : D \in SUBSET FieldNames}}

\* A caller's predicate on a slice: it rejects the nil slice.
ArrayFns == {CustomFn({NilSlice})}

Returned(op) == [op |-> op]
Validated(op, value, r) == [op |-> op, value |-> value, err |-> r.err, calls |-> r.calls]

Init ==
    /\ base = New
    /\ str = String
    /\ num = Number
    /\ ptr = Pointer
    /\ arr = Array
    /\ obj = Object(AnyType)
    /\ null = Null
    /\ bool = Bool
    /\ parsed = Unparsed
    /\ threads = [t \in Threads |-> Idle]
    /\ ret = Returned("New")

(* Base schema. *)

CallSchemaCustom ==
    /\ Len(base.validators) < MaxValidators
    /\ \E fn \in BaseFns : base' = Schema_Custom(base, fn)
    /\ ret' = Returned("Schema.Custom")
    /\ UNCHANGED <<str, num, ptr, arr, obj, null, bool, parsed, threads>>

CallSchemaValidate ==
    /\ \E v \in BaseValues :
          ret' = Validated("Schema.Validate", v, Schema_Validate(base, v))
    /\ UNCHANGED <<base, str, num, ptr, arr, obj, null, bool, parsed, threads>>

NextBase == CallSchemaCustom \/ CallSchemaValidate

SpecBase == Init /\ [][NextBase]_vars

(* String schema. *)

StringRoom == Len(str.Schema.validators) < MaxValidators

CallStringRequired ==
    /\ str' = StringSchema_Required(str)
    /\ ret' = Returned("StringSchema.Required")
    /\ UNCHANGED <<base, num, ptr, arr, obj, null, bool, parsed, threads>>

CallStringMin ==
    /\ StringRoom
    /\ \E n \in Lengths : str' = StringSchema_Min(str, n)
    /\ ret' = Returned("StringSchema.Min")
    /\ UNCHANGED <<base, num, ptr, arr, obj, null, bool, parsed, threads>>

CallStringMax ==
    /\ StringRoom
    /\ \E n \in Lengths : str' = StringSchema_Max(str, n)
    /\ ret' = Returned("StringSchema.Max")
    /\ UNCHANGED <<base, num, ptr, arr, obj, null, bool, parsed, threads>>

CallStringLength ==
    /\ StringRoom
    /\ \E n \in Lengths : str' = StringSchema_Length(str, n)
    /\ ret' = Returned("StringSchema.Length")
    /\ UNCHANGED <<base, num, ptr, arr, obj, null, bool, parsed, threads>>

\* Custom is the embedded *Schema[string]'s method.
CallStringCustom ==
    /\ StringRoom
    /\ \E fn \in StringFns : str' = [str EXCEPT !.Schema = Schema_Custom(@, fn)]
    /\ ret' = Returned("Schema.Custom")
    /\ UNCHANGED <<base, num, ptr, arr, obj, null, bool, parsed, threads>>

CallStringValidate ==
    /\ \E v \in StringValues :
          ret' = Validated("StringSchema.Validate", v, StringSchema_Validate(str, v))
    /\ UNCHANGED <<base, str, num, ptr, arr, obj, null, bool, parsed, threads>>

NextString ==
    \/ CallStringRequired
    \/ CallStringMin
    \/ CallStringMax
    \/ CallStringLength
    \/ CallStringCustom
    \/ CallStringValidate

SpecString == Init /\ [][NextString]_vars

(* Number schema, and the adapter's integer node over it. *)

NumberRoom == Len(num.Schema.validators) < MaxValidators

CallNumberRequired ==
    /\ num' = NumberSchema_Required(num)
    /\ ret' = Returned("NumberSchema.Required")
    /\ UNCHANGED <<base, str, ptr, arr, obj, null, bool, parsed, threads>>

CallNumberMin ==
    /\ NumberRoom
    /\ \E a \in NumberBounds : num' = NumberSchema_Min(num, a)
    /\ ret' = Returned("NumberSchema.Min")
    /\ UNCHANGED <<base, str, ptr, arr, obj, null, bool, parsed, threads>>

CallNumberMax ==
    /\ NumberRoom
    /\ \E b \in NumberBounds : num' = NumberSchema_Max(num, b)
    /\ ret' = Returned("NumberSchema.Max")
    /\ UNCHANGED <<base, str, ptr, arr, obj, null, bool, parsed, threads>>

CallNumberCustom ==
    /\ NumberRoom
    /\ \E fn \in NumberFns : num' = [num EXCEPT !.Schema = Schema_Custom(@, fn)]
    /\ ret' = Returned("Schema.Custom")
    /\ UNCHANGED <<base, str, ptr, arr, obj, null, bool, parsed, threads>>

CallNumberValidate ==
    /\ \E v \in NumberValues :
          ret' = Validated("NumberSchema.Validate", v, NumberSchema_Validate(num, v))
    /\ UNCHANGED <<base, str, num, ptr, arr, obj, null, bool, parsed, threads>>

CallIntegerNodeValidate ==
    /\ \E v \in IntegerNodeValues :
          ret' = Validated("IntegerNode.Validate", v, Schema_Validate(IntegerNode, v))
    /\ UNCHANGED <<base, str, num, ptr, arr, obj, null, bool, parsed, threads>>

NextNumber ==
    \/ CallNumberRequired
    \/ CallNumberMin
    \/ CallNumberMax
    \/ CallNumberCustom
    \/ CallNumberValidate
    \/ CallIntegerNodeValidate

SpecNumber == Init /\ [][NextNumber]_vars

(* Pointer schema, over the string schema as the inner schema of Ptr. *)

CallPtr ==
    /\ ptr' = Ptr("str")
    /\ ret' = Returned("Ptr")
    /\ UNCHANGED <<base, str, num, arr, obj, null, bool, parsed, threads>>

CallPointerRequired ==
    /\ ptr' = PointerSchema_Required(ptr)
    /\ ret' = Returned("PointerSchema.Required")
    /\ UNCHANGED <<base, str, num, arr, obj, null, bool, parsed, threads>>

CallPointerCustom ==
    /\ Len(ptr.Schema.validators) < MaxValidators
    /\ \E fn \in PointerFns : ptr' = PointerSchema_Custom(ptr, fn)
    /\ ret' = Returned("PointerSchema.Custom")
    /\ UNCHANGED <<base, str, num, arr, obj, null, bool, parsed, threads>>

CallPointerValidate ==
    /\ \E v \in PointerValues :
          ret' = Validated("PointerSchema.Validate", v, PointerSchema_Validate(ptr, v))
    /\ UNCHANGED <<base, str, num, ptr, arr, obj, null, bool, parsed, threads>>

NextPointer ==
    \/ CallStringRequired
    \/ CallStringMin
    \/ CallPtr
    \/ CallPointerRequired
    \/ CallPointerCustom
    \/ CallPointerValidate

SpecPointer == Init /\ [][NextPointer]_vars

(* The program that calls Ptr on the new inner schema first and builds the *)
(* inner schema and the Ptr schema afterwards.                              *)

HasPtr == Len(ptr.Schema.validators) >= 1 /\ ptr.Schema.validators[1].kind = "Ptr"

CallPtrFirst == ptr = Pointer /\ str = String /\ CallPtr

CallInnerRequired == HasPtr /\ CallStringRequired

CallInnerMin == HasPtr /\ CallStringMin

CallInnerCustom == HasPtr /\ CallStringCustom

CallPtrRequired == HasPtr /\ CallPointerRequired

CallPtrCustom == HasPtr /\ CallPointerCustom

CallPtrValidate == HasPtr /\ CallPointerValidate

NextPtrInner ==
    \/ CallPtrFirst
    \/ CallInnerRequired
    \/ CallInnerMin
    \/ CallInnerCustom
    \/ CallPtrRequired
    \/ CallPtrCustom
    \/ CallPtrValidate

SpecPtrInner == Init /\ [][NextPtrInner]_vars

(* Array schema. *)

ArrayRoom == Len(arr.Schema.validators) < MaxValidators

CallArrayItems ==
    /\ ArrayRoom
    /\ \E fn \in ItemFns : arr' = ArraySchema_Items(arr, fn)
    /\ ret' = Returned("ArraySchema.Items")
    /\ UNCHANGED <<base, str, num, ptr, obj, null, bool, parsed, threads>>

CallArrayMin ==
    /\ ArrayRoom
    /\ \E n \in Lengths : arr' = ArraySchema_Min(arr, n)
    /\ ret' = Returned("ArraySchema.Min")
    /\ UNCHANGED <<base, str, num, ptr, obj, null, bool, parsed, threads>>

CallArrayMax ==
    /\ ArrayRoom
    /\ \E n \in Lengths : arr' = ArraySchema_Max(arr, n)
    /\ ret' = Returned("ArraySchema.Max")
    /\ UNCHANGED <<base, str, num, ptr, obj, null, bool, parsed, threads>>

CallArrayLength ==
    /\ ArrayRoom
    /\ \E n \in Lengths : arr' = ArraySchema_Length(arr, n)
    /\ ret' = Returned("ArraySchema.Length")
    /\ UNCHANGED <<base, str, num, ptr, obj, null, bool, parsed, threads>>

CallArrayUniqueItems ==
    /\ ArrayRoom
    /\ arr' = ArraySchema_UniqueItems(arr)
    /\ ret' = Returned("ArraySchema.UniqueItems")
    /\ UNCHANGED <<base, str, num, ptr, obj, null, bool, parsed, threads>>

CallArrayValidate ==
    /\ \E v \in ArrayValues :
          ret' = Validated("ArraySchema.Validate", v, ArraySchema_Validate(arr, v))
    /\ UNCHANGED <<base, str, num, ptr, arr, obj, null, bool, parsed, threads>>

NextArray ==
    \/ CallArrayItems
    \/ CallArrayMin
    \/ CallArrayMax
    \/ CallArrayLength
    \/ CallArrayUniqueItems
    \/ CallArrayValidate

SpecArray == Init /\ [][NextArray]_vars

(* Object schema. *)

CallObject ==
    /\ \E T \in {AnyType, MapType} : obj' = Object(T)
    /\ ret' = Returned("Object")
    /\ UNCHANGED <<base, str, num, ptr, arr, null, bool, parsed, threads>>

CallObjectField ==
    /\ \E fieldName \in FieldNames, fn \in ObjectFns :
          /\ obj' = ObjectSchema_Field(obj, fieldName, fn)
          /\ ret' = [op |-> "ObjectSchema.Field",
                     fieldValidators |-> [k \in {fieldName} |-> fn],
                     before |-> obj.fieldValidators]
    /\ UNCHANGED <<base, str, num, ptr, arr, null, bool, parsed, threads>>

CallObjectMap ==
    /\ \E D \in SUBSET FieldNames :
          \E fieldValidators \in [D -> ObjectFns] :
              /\ obj' \in ObjectSchema_Map(obj, fieldValidators)
              /\ ret' = [op |-> "ObjectSchema.Map", fieldValidators |-> fieldValidators,
                         before |-> obj.fieldValidators]
    /\ UNCHANGED <<base, str, num, ptr, arr, null, bool, parsed, threads>>

CallObjectValidate ==
    /\ \E v \in ObjectValues(obj.T) :
          \E r \in ObjectSchema_Validate(obj, v) :
              ret' = Validated("ObjectSchema.Validate", v, r)
    /\ UNCHANGED <<base, str, num, ptr, arr, obj, null, bool, parsed, threads>>

NextObject ==
    \/ CallObject
    \/ CallObjectField
    \/ CallObjectMap
    \/ CallObjectValidate

SpecObject == Init /\ [][NextObject]_vars

(* Null schema. *)

\* Custom is the embedded *Schema[any]'s method.
CallNullCustom ==
    /\ Len(null.Schema.validators) < MaxValidators
    /\ \E fn \in NullFns : null' = [null EXCEPT !.Schema = Schema_Custom(@, fn)]
    /\ ret' = Returned("Schema.Custom")
    /\ UNCHANGED <<base, str, num, ptr, arr, obj, bool, parsed, threads>>

CallNullValidate ==
    /\ \E v \in NullValues :
          ret' = Validated("NullSchema.Validate", v, NullSchema_Validate(null, v))
    /\ UNCHANGED <<base, str, num, ptr, arr, obj, null, bool, parsed, threads>>

NextNull == CallNullCustom \/ CallNullValidate

SpecNull == Init /\ [][NextNull]_vars

(* Bool schema. *)

CallBoolValidate ==
    /\ \E v \in BoolValues :
          ret' = Validated("BoolSchema.Validate", v, BoolSchema_Validate(bool, v))
    /\ UNCHANGED <<base, str, num, ptr, arr, obj, null, bool, parsed, threads>>

(* Schemas of every kind to which no predicate is attached. *)

NextNoPredicate ==
    \/ CallSchemaValidate
    \/ CallStringRequired
    \/ CallStringValidate
    \/ CallNumberRequired
    \/ CallNumberValidate
    \/ CallPointerRequired
    \/ CallPointerValidate
    \/ CallArrayValidate
    \/ CallObject
    \/ CallObjectValidate
    \/ CallNullValidate
    \/ CallBoolValidate

SpecNoPredicate == Init /\ [][NextNoPredicate]_vars

(* Custom on a specialized schema.  Custom is the method of the embedded   *)
(* *Schema[T]: it appends fn and returns that *Schema[T], so Validate on    *)
(* what Custom returned is Schema.Validate on the embedded schema.          *)

CallArrayCustom ==
    /\ ArrayRoom
    /\ \E fn \in ArrayFns : arr' = [arr EXCEPT !.Schema = Schema_Custom(@, fn)]
    /\ ret' = Returned("Schema.Custom")
    /\ UNCHANGED <<base, str, num, ptr, obj, null, bool, parsed, threads>>

CallStringCustomValidate ==
    /\ Len(str.Schema.validators) >= 1
    /\ \E v \in StringValues :
          ret' = Validated("StringSchema.Schema.Validate", v, Schema_Validate(str.Schema, v))
    /\ UNCHANGED <<base, str, num, ptr, arr, obj, null, bool, parsed, threads>>

CallNullCustomValidate ==
    /\ Len(null.Schema.validators) >= 1
    /\ \E v \in NullValues :
          ret' = Validated("NullSchema.Schema.Validate", v, Schema_Validate(null.Schema, v))
    /\ UNCHANGED <<base, str, num, ptr, arr, obj, null, bool, parsed, threads>>

CallArrayCustomValidate ==
    /\ Len(arr.Schema.validators) >= 1
    /\ \E v \in ArrayValues :
          ret' = Validated("ArraySchema.Schema.Validate", v, Schema_Validate(arr.Schema, v))
    /\ UNCHANGED <<base, str, num, ptr, arr, obj, null, bool, parsed, threads>>

(* The adapter: the caller parses its document once, then validates values *)
(* against the schema it got.                                               *)

CallParseJSONSchema ==
    /\ parsed = Unparsed
    /\ \E node \in Nodes :
          LET r == ParseJSONSchema(node)
          IN  /\ parsed' = [node |-> <<node>>, schema |-> r.schema]
              /\ ret' = [op |-> "ParseJSONSchema", node |-> node,
                         schema |-> r.schema, err |-> r.err]
    /\ UNCHANGED <<base, str, num, ptr, arr, obj, null, bool, threads>>

CallParsedValidate ==
    /\ parsed.schema # <<>>
    /\ \E v \in AdapterValues :
          \E r \in Schema_ValidateOrders(parsed.schema[1], v) :
             ret' = Validated("ParseJSONSchema.Validate", v, r)
    /\ UNCHANGED <<base, str, num, ptr, arr, obj, null, bool, parsed, threads>>

NextAdapter == CallParseJSONSchema \/ CallParsedValidate

SpecAdapter == Init /\ [][NextAdapter]_vars

NextCustom ==
    \/ CallStringRequired
    \/ CallStringCustom
    \/ CallStringCustomValidate
    \/ CallNullCustom
    \/ CallNullCustomValidate
    \/ CallArrayCustom
    \/ CallArrayCustomValidate

SpecCustom == Init /\ [][NextCustom]_vars

(* Schemas of every kind, hand-built and built by the adapter: a program   *)
(* that works on one schema, of any kind, with every operation on it.      *)

\* Every schema but those named in S is as it was constructed.
Fresh(S) ==
    /\ "base" \in S \/ base = New
    /\ "str" \in S \/ str = String
    /\ "num" \in S \/ num = Number
    /\ "ptr" \in S \/ ptr = Pointer
    /\ "arr" \in S \/ arr = Array
    /\ "obj" \in S \/ obj = Object(AnyType)
    /\ "null" \in S \/ null = Null
    /\ "parsed" \in S \/ parsed = Unparsed

NextEvery ==
    \/ Fresh({"base"}) /\ NextBase
    \/ Fresh({"str"}) /\ NextString
    \/ Fresh({"num"}) /\ NextNumber
    \/ Fresh({"ptr", "str"}) /\ NextPtrInner
    \/ Fresh({"arr"}) /\ NextArray
    \/ Fresh({"obj"}) /\ NextObject
    \/ Fresh({"null"}) /\ NextNull
    \/ Fresh({}) /\ CallBoolValidate
    \/ Fresh({"parsed"}) /\ NextAdapter

SpecEvery == Init /\ [][NextEvery]_vars

(* Concurrent Validate calls.  The program builds an Array schema or an   *)
(* Object schema while no call is in progress; each goroutine then calls   *)
(* Validate on it, and the steps of the calls interleave.                  *)

Running == \E t \in Threads : threads[t].pc # "idle"

BuildArraySchema ==
    /\ ~Running
    /\ Fresh({"arr"})
    /\ CallArrayItems \/ CallArrayMin \/ CallArrayUniqueItems

BuildObjectSchema ==
    /\ ~Running
    /\ Fresh({"obj"})
    /\ CallObjectField

ConcurrentArrayValues ==
    {NilSlice, Slice(<<I64(1)>>), Slice(<<I64(1), F64(Num(1))>>), Slice(<<F64(NaN), I64(1)>>)}

ConcurrentObjectValues ==
    {AnyNil, MapValue(<<>>), MapValue([k \in {"a"} |-> AnyString("a")])}

\* go arr.Validate(v): a nil slice goes through the validators as []T{}.
GoArrayValidate(t) ==
    /\ threads[t].pc = "idle"
    /\ obj.fieldValidators = <<>>
    /\ \E v \in ConcurrentArrayValues :
          threads' = [threads EXCEPT ![t] =
                         [Idle EXCEPT !.pc = "loop", !.on = "arr", !.value = v, !.i = 1]]
    /\ UNCHANGED <<base, str, num, ptr, arr, obj, null, bool, parsed, ret>>

\* One turn of the loop over s.validators.
StepValidators(t) ==
    LET thread == threads[t]
        arg == IF thread.value.isNil THEN Slice(<<>>) ELSE thread.value
    IN  /\ thread.pc = "loop"
        /\ threads' = [threads EXCEPT ![t] =
               IF thread.i > Len(arr.Schema.validators)
               THEN Done(thread, NilError)
               ELSE LET fn == arr.Schema.validators[thread.i]
                    IN  IF fn.kind = "ArraySchema.UniqueItems"
                        THEN [thread EXCEPT !.pc = "unique", !.j = 0, !.seen = {}]
                        ELSE LET r == Call(fn, arg)
                             IN  IF r.err # NilError
                                 THEN Done(thread, r.err)
                                 ELSE [thread EXCEPT !.i = @ + 1]]
        /\ UNCHANGED <<base, str, num, ptr, arr, obj, null, bool, parsed, ret>>

\* A map shared by the calls: what every call in progress has put in it.
Seen_Shared(t) == UNION {threads[u].seen : u \in Threads}

\* seen := make(map[string]struct{}): the map of this call of the closure.
Seen(t) == threads[t].seen

\* One turn of the loop of the UniqueItems closure.
StepUniqueItems(t) ==
    LET thread == threads[t]
        items == thread.value.items
    IN  /\ thread.pc = "unique"
        /\ threads' = [threads EXCEPT ![t] =
               IF thread.j >= Len(items)
               THEN [thread EXCEPT !.pc = "loop", !.i = @ + 1]
               ELSE LET m == Marshal(items[thread.j + 1])
                    IN  IF m.err # NilError
                        THEN Done(thread,
                                  Wrapf("failed to marshal array item for uniqueness check at index "
                                            \o ToString(thread.j) \o ": ", m.err))
                        ELSE IF m.key \in Seen(t)
                        THEN Done(thread,
                                  Errorf("array items must be unique (duplicate found at index "
                                             \o ToString(thread.j) \o ")"))
                        ELSE [thread EXCEPT !.seen = @ \cup {m.key}, !.j = @ + 1]]
        /\ UNCHANGED <<base, str, num, ptr, arr, obj, null, bool, parsed, ret>>

\* go obj.Validate(v): range chooses an order of the field validators.
GoObjectValidate(t) ==
    /\ threads[t].pc = "idle"
    /\ arr = Array
    /\ \E v \in ConcurrentObjectValues, order \in Orders(obj.fieldValidators) :
          threads' = [threads EXCEPT ![t] =
                         [Idle EXCEPT !.pc = "fields", !.on = "obj", !.value = v,
                                      !.order = order, !.i = 1]]
    /\ UNCHANGED <<base, str, num, ptr, arr, obj, null, bool, parsed, ret>>

\* One turn of the loop over s.fieldValidators.
StepFields(t) ==
    LET thread == threads[t]
    IN  /\ thread.pc = "fields"
        /\ IF thread.i > Len(thread.order)
           THEN threads' = [threads EXCEPT ![t] = Done(thread, NilError)]
           ELSE LET fieldName == thread.order[thread.i]
                    arg == IF thread.value.t = MapType
                           THEN Lookup(thread.value, fieldName)
                           ELSE thread.value
                IN  \E r \in ObjectSchema_FieldFn(obj.fieldValidators[fieldName], arg) :
                        threads' = [threads EXCEPT ![t] =
                                       IF r.err # NilError
                                       THEN Done(thread, r.err)
                                       ELSE [thread EXCEPT !.i = @ + 1]]
        /\ UNCHANGED <<base, str, num, ptr, arr, obj, null, bool, parsed, ret>>

\* The call returns its result to the goroutine.
ReturnValidate(t) ==
    /\ threads[t].pc = "done"
    /\ threads' = [threads EXCEPT ![t] = Idle]
    /\ ret' = [op |-> "go Validate", on |-> threads[t].on, value |-> threads[t].value,
               err |-> threads[t].err]
    /\ UNCHANGED <<base, str, num, ptr, arr, obj, null, bool, parsed>>

NextConcurrent ==
    \/ BuildArraySchema
    \/ BuildObjectSchema
    \/ \E t \in Threads :
          \/ GoArrayValidate(t)
          \/ StepValidators(t)
          \/ StepUniqueItems(t)
          \/ GoObjectValidate(t)
          \/ StepFields(t)
          \/ ReturnValidate(t)

SpecConcurrent == Init /\ [][NextConcurrent]_vars

----------------------------------------------------------------------------
(* Properties of the base schema (SpecBase). *)

\* C1: Schema.Validate invokes the attached predicates in attachment order,
\* returns the error of the first predicate that fails without invoking any
\* later predicate, and returns no error iff every predicate passes.
C1_ValidateFirstFailure ==
    ret.op = "Schema.Validate" =>
        LET vs == base.validators
            F  == {i \in 1 .. Len(vs) : ret.value \in vs[i].rejects}
            k  == IF F = {} THEN Len(vs) ELSE CHOOSE i \in F : \A j \in F : i <= j
        IN  /\ ret.calls = [i \in 1 .. k |-> Event("validator", i)]
            /\ (ret.err = NilError) <=> (F = {})
            /\ F # {} => ret.err = Errorf(vs[k].msg)

\* Two different predicates both reject the value: only the first was
\* invoked, and its error was returned.
C1_Witness ==
    /\ ret.op = "Schema.Validate"
    /\ Len(base.validators) = 2
    /\ base.validators[1] # base.validators[2]
    /\ \A i \in 1 .. 2 : ret.value \in base.validators[i].rejects
    /\ ret.calls = <<Event("validator", 1)>>
    /\ ret.err = Errorf(base.validators[1].msg)

----------------------------------------------------------------------------
(* Properties of the String schema (SpecString). *)

\* C2: on a String schema with Required() set, Validate("") returns the
\* ErrValueRequired sentinel without running any attached predicate, and
\* Validate of a non-empty string gives what the same schema without
\* Required() gives.
C2_StringRequired ==
    (ret.op = "StringSchema.Validate" /\ str.required) =>
        IF ret.value = ""
        THEN ret.err = ErrValueRequired /\ ret.calls = <<>>
        ELSE Result(ret.err, ret.calls)
                 = StringSchema_Validate([str EXCEPT !.required = FALSE], ret.value)

\* A required schema whose predicates would all reject "" returned the
\* sentinel for "", having run none of them.
C2_Witness ==
    /\ ret.op = "StringSchema.Validate"
    /\ str.required
    /\ ret.value = ""
    /\ Len(str.Schema.validators) = 2
    /\ \A i \in 1 .. 2 : Call(str.Schema.validators[i], "").err # NilError
    /\ ret.err = ErrValueRequired
    /\ ret.calls = <<>>

\* C5: on a String schema Min(n) fails exactly when the length is < n,
\* Max(n) exactly when it is > n, Length(n) exactly when it is # n; with
\* several predicates attached a value is valid iff it satisfies all of them,
\* and "" on a schema that is not required is checked like any other value.
C5_StringLengthPredicates ==
    (ret.op = "StringSchema.Validate" /\ ~(str.required /\ ret.value = "")) =>
        LET vs == str.Schema.validators
            n  == Len(ret.value)
            Satisfies(fn) ==
                CASE fn.kind = "StringSchema.Min" -> n >= fn.min
                  [] fn.kind = "StringSchema.Max" -> n <= fn.max
                  [] fn.kind = "StringSchema.Length" -> n = fn.length
                  [] fn.kind = "Custom" -> ret.value \notin fn.rejects
        IN  (ret.err = NilError) <=> (\A i \in 1 .. Len(vs) : Satisfies(vs[i]))

\* "" on a schema that is not required passed Max(MaxLen) and failed Min(1).
C5_Witness ==
    /\ ret.op = "StringSchema.Validate"
    /\ ~str.required
    /\ ret.value = ""
    /\ str.Schema.validators = <<[kind |-> "StringSchema.Max", max |-> MaxLen],
                                 [kind |-> "StringSchema.Min", min |-> 1]>>
    /\ ret.calls = <<Event("validator", 1), Event("validator", 2)>>
    /\ ret.err = Errorf("length must be at least 1")

----------------------------------------------------------------------------
(* Properties of the Number schema (SpecNumber). *)

\* C3: on a Number schema with Required() set, Validate(0) returns the
\* ErrValueRequired sentinel before the predicate chain runs, whatever the
\* attached bounds; for a value other than 0 the result is that of the
\* predicate chain alone.  So the adapter's required integer node rejects
\* the explicit value int64(0) with the sentinel, whatever its minimum.
C3_NumberRequiredZero ==
    /\ (ret.op = "NumberSchema.Validate" /\ num.required) =>
           IF NumEq(ret.value, Zero)
           THEN ret.err = ErrValueRequired /\ ret.calls = <<>>
           ELSE Result(ret.err, ret.calls) = Schema_Validate(num.Schema, ret.value)
    /\ (ret.op = "IntegerNode.Validate" /\ num.required /\ ret.value = I64(0)) =>
           ret.err = ErrValueRequired

\* A required schema built as Min(0).Max(MaxValue) returned the sentinel for 0.
C3_Witness ==
    /\ ret.op = "NumberSchema.Validate"
    /\ num.required
    /\ num.Schema.validators = <<[kind |-> "NumberSchema.Min", min |-> Zero],
                                 [kind |-> "NumberSchema.Max", max |-> Num(MaxValue)]>>
    /\ ret.value = Zero
    /\ ret.err = ErrValueRequired

\* C4: on a Number schema that is not required and was built as
\* Min(a).Max(b) with a <= b, Validate(v) returns no error iff a <= v <= b;
\* for v < a the error names a, for v > b it names b.  (<= is the number
\* type's own order.)
C4_MinMaxRange ==
    LET vs == num.Schema.validators
    IN  (/\ ret.op = "NumberSchema.Validate"
         /\ ~num.required
         /\ Len(vs) = 2
         /\ vs[1].kind = "NumberSchema.Min"
         /\ vs[2].kind = "NumberSchema.Max"
         /\ ~NumGt(vs[1].min, vs[2].max)) =>
            LET a == vs[1].min
                b == vs[2].max
                v == ret.value
                Le(x, y) == NumLt(x, y) \/ NumEq(x, y)
            IN  /\ (ret.err = NilError) <=> (Le(a, v) /\ Le(v, b))
                /\ NumLt(v, a) =>
                       ret.err = Errorf("value must be at least " \o FormatV(a))
                /\ NumGt(v, b) =>
                       ret.err = Errorf("value must be at most " \o FormatV(b))

\* C4 for the values the order relates: the same statement for every value
\* v other than NaN.
C4_MinMaxRangeOrdered ==
    ret.op = "NumberSchema.Validate" => (~ret.value.nan => C4_MinMaxRange)

----------------------------------------------------------------------------
(* Properties of the Pointer schema (SpecPointer). *)

\* C6 as claimed: Validate(nil) returns the ErrValueRequired sentinel when
\* Required() is set; when it is not set, Validate(nil) returns no error
\* without running any predicate attached to the pointer schema.
C6_NilSkipsPredicates ==
    (ret.op = "PointerSchema.Validate" /\ ret.value.isNil) =>
        IF ptr.required
        THEN ret.err = ErrValueRequired
        ELSE ret.err = NilError /\ ret.calls = <<>>

\* C6 as amended: Validate(nil) returns the ErrValueRequired sentinel,
\* running no predicate, when Required() is set; when it is not set,
\* Validate(nil) runs the predicates attached to the pointer schema on the
\* nil pointer, in attachment order up to the first that rejects it, and
\* returns that predicate's error, or no error when all accept nil.  The
\* predicate Ptr attaches accepts nil without invoking the wrapped schema.
C6_NilRunsPredicates ==
    (ret.op = "PointerSchema.Validate" /\ ret.value.isNil) =>
        IF ptr.required
        THEN ret.err = ErrValueRequired /\ ret.calls = <<>>
        ELSE LET vs == ptr.Schema.validators
                 F  == {i \in 1 .. Len(vs) :
                           vs[i].kind = "Custom" /\ NilPtr \in vs[i].rejects}
                 k  == IF F = {} THEN Len(vs) ELSE CHOOSE i \in F : \A j \in F : i <= j
             IN  /\ ret.calls = [i \in 1 .. k |-> Event("validator", i)]
                 /\ ret.err = IF F = {} THEN NilError ELSE Errorf(vs[k].msg)

\* A pointer schema that is not required ran its predicates on nil: Ptr's
\* predicate accepted it and a Custom predicate then rejected it.
C6_Witness ==
    /\ ret.op = "PointerSchema.Validate"
    /\ ret.value.isNil
    /\ ~ptr.required
    /\ Len(ptr.Schema.validators) = 2
    /\ ptr.Schema.validators[1].kind = "Ptr"
    /\ ptr.Schema.validators[2] = CustomFn({NilPtr})
    /\ ret.calls = <<Event("validator", 1), Event("validator", 2)>>
    /\ ret.err = Errorf(CustomFn({NilPtr}).msg)

\* C7: for Ptr(inner), Validate of a non-nil pointer returns exactly
\* inner.Validate of the pointed-to value, with or without Required() on the
\* Ptr schema; Validate(nil) returns no error, and the ErrValueRequired
\* sentinel once Required() is set on the Ptr schema.
C7_PtrDelegates ==
    LET vs == ptr.Schema.validators
    IN  (ret.op = "PointerSchema.Validate" /\ Len(vs) = 1 /\ vs[1].kind = "Ptr") =>
            IF ret.value.isNil
            THEN ret.err = IF ptr.required THEN ErrValueRequired ELSE NilError
            ELSE ret.err = StringSchema_Validate(str, ret.value.elem).err

\* Ptr(String().Min(2)) with Required() layered on it returned the inner
\* schema's length error for a pointer to "a".
C7_Witness ==
    /\ ret.op = "PointerSchema.Validate"
    /\ ptr = PointerSchema_Required(Ptr("str"))
    /\ str.Schema.validators = <<[kind |-> "StringSchema.Min", min |-> 2]>>
    /\ ret.value = PtrTo("a")
    /\ ret.err = Errorf("length must be at least 2")

----------------------------------------------------------------------------
(* Properties of the Array schema (SpecArray). *)

\* C8: with any combination of Min, Max, Length, UniqueItems and Items
\* attached, Validate(nil) returns exactly what Validate of the empty slice
\* returns: the length violation of the first Min(n) or Length(n), n >= 1,
\* and no error when no predicate sets such a floor.
C8_NilAsEmpty ==
    (ret.op = "ArraySchema.Validate" /\ ret.value.isNil) =>
        LET vs    == arr.Schema.validators
            empty == ArraySchema_Validate(arr, Slice(<<>>))
            F     == {i \in 1 .. Len(vs) :
                         \/ vs[i].kind = "ArraySchema.Min" /\ vs[i].min >= 1
                         \/ vs[i].kind = "ArraySchema.Length" /\ vs[i].length >= 1}
            k     == CHOOSE i \in F : \A j \in F : i <= j
        IN  /\ Result(ret.err, ret.calls) = empty
            /\ F = {} => ret.err = NilError
            /\ F # {} =>
                   ret.err = IF vs[k].kind = "ArraySchema.Min"
                             THEN Errorf("array length must be at least "
                                             \o ToString(vs[k].min))
                             ELSE Errorf("array length must be exactly "
                                             \o ToString(vs[k].length))

\* A nil slice passed UniqueItems and failed Min(1) with the length violation.
C8_Witness ==
    /\ ret.op = "ArraySchema.Validate"
    /\ ret.value.isNil
    /\ arr.Schema.validators = <<[kind |-> "ArraySchema.UniqueItems"],
                                 [kind |-> "ArraySchema.Min", min |-> 1]>>
    /\ ret.calls = <<Event("validator", 1), Event("validator", 2)>>
    /\ ret.err = Errorf("array length must be at least 1")

\* C9: on an Array schema with UniqueItems(), Validate of a slice with a
\* repeated element returns an error naming the smallest index whose item
\* equals an item at an earlier index; Validate of a slice of pairwise
\* distinct items, and of nil, returns no error.
C9_UniqueItemsFirstRepeat ==
    LET vs == arr.Schema.validators
    IN  (/\ ret.op = "ArraySchema.Validate"
         /\ Len(vs) = 1
         /\ vs[1].kind = "ArraySchema.UniqueItems") =>
            LET items == ret.value.items
                R == {i \in 2 .. Len(items) :
                         \E j \in 1 .. (i - 1) : AnyEq(items[i], items[j])}
                r == CHOOSE i \in R : \A j \in R : i <= j
            IN  ret.err = IF R = {}
                          THEN NilError
                          ELSE Errorf("array items must be unique (duplicate found at index "
                                          \o ToString(r - 1) \o ")")

\* C10: the Items predicate validates the items in index order and fails at
\* the lowest index whose item the validator rejects, with the error
\* "invalid item at index <i>: <inner error>" wrapping the inner error; the
\* items after that index are not validated; when every item passes the
\* predicate passes and the schema's next predicate runs.
C10_ItemsFirstInvalid ==
    LET vs == arr.Schema.validators
    IN  (/\ ret.op = "ArraySchema.Validate"
         /\ Len(vs) >= 1
         /\ vs[1].kind = "ArraySchema.Items") =>
            LET f      == vs[1].validator
                items  == ret.value.items
                F      == {i \in 0 .. Len(items) - 1 : items[i + 1] \in f.rejects}
                k      == IF F = {} THEN Len(items) - 1
                          ELSE CHOOSE i \in F : \A j \in F : i <= j
                prefix == <<Event("validator", 1)>>
                              \o [i \in 1 .. k + 1 |-> Event("item", i - 1)]
            IN  IF F # {}
                THEN /\ ret.calls = prefix
                     /\ ret.err.msg = "invalid item at index " \o ToString(k) \o ": " \o f.msg
                     /\ ret.err.cause = <<Errorf(f.msg)>>
                ELSE /\ SubSeq(ret.calls, 1, Len(prefix)) = prefix
                     /\ Len(vs) = 1 => ret.calls = prefix /\ ret.err = NilError
                     /\ Len(vs) > 1 => ret.calls[Len(prefix) + 1] = Event("validator", 2)

\* The validator rejects both items of a slice: it was invoked on the first
\* only, and the error names index 0.
C10_Witness ==
    /\ ret.op = "ArraySchema.Validate"
    /\ Len(arr.Schema.validators) = 1
    /\ arr.Schema.validators[1].kind = "ArraySchema.Items"
    /\ Len(ret.value.items) = 2
    /\ \A i \in 1 .. 2 : ret.value.items[i] \in arr.Schema.validators[1].validator.rejects
    /\ ret.calls = <<Event("validator", 1), Event("item", 0)>>
    /\ ret.err.cause = <<Errorf(arr.Schema.validators[1].validator.msg)>>

----------------------------------------------------------------------------
(* Properties of the Object schema (SpecObject). *)

\* err is the error of a validator registered on schema s, wrapped once
\* with each field name on the way down to it, outermost first.
RECURSIVE WrappedPerLevel(_, _)
WrappedPerLevel(s, err) ==
    \E f \in DOMAIN s.fieldValidators :
        LET validateFn == s.fieldValidators[f].validateFn
        IN  /\ err.id = "error"
            /\ Len(err.cause) = 1
            /\ err.msg = "validation failed for field \"" \o f \o "\": " \o err.cause[1].msg
            /\ IF validateFn.kind = "ObjectSchema.Validate"
               THEN WrappedPerLevel(validateFn.schema, err.cause[1])
               ELSE err.cause[1] = Errorf(validateFn.msg)

\* C11: when a field validator of an Object schema fails, on the mapping
\* path or on the structured-value path, the error returned is the inner
\* error wrapped exactly once with the field's name; an Object schema nested
\* k levels deep yields exactly k wraps, outermost field name first.
C11_FieldErrorWrapped ==
    (ret.op = "ObjectSchema.Validate" /\ ret.err # NilError) =>
        WrappedPerLevel(obj, ret.err)

\* A map failed the validator of field "a" of the object schema nested under
\* field "b": the error is wrapped with "b", then with "a".
C11_Witness ==
    /\ ret.op = "ObjectSchema.Validate"
    /\ ret.value.t = MapType
    /\ "b" \in DOMAIN obj.fieldValidators
    /\ obj.fieldValidators["b"].validateFn.kind = "ObjectSchema.Validate"
    /\ Len(ret.err.cause) = 1
    /\ Len(ret.err.cause[1].cause) = 1
    /\ ret.err.cause[1].cause[1].cause = <<>>
    /\ ret.err.msg = "validation failed for field \"b\": validation failed for field \"a\": "
                         \o ret.err.cause[1].cause[1].msg

\* What the validator of field f is given when the value last validated is
\* validated, and the errors it can return for it.
FieldArg(f) == IF ret.value.t = MapType THEN Lookup(ret.value, f) ELSE ret.value
FieldErrors(f) ==
    {r.err : r \in ObjectSchema_FieldFn(obj.fieldValidators[f], FieldArg(f))} \ {NilError}

\* C12 as claimed: for an Object schema with fields "a" and "b", whenever
\* the value fails field "a", Validate returns an error that names field "a"
\* and carries a's inner message, whether field "b" is valid or not.
C12_FailingANamed ==
    (/\ ret.op = "ObjectSchema.Validate"
     /\ {"a", "b"} \subseteq DOMAIN obj.fieldValidators
     /\ FieldErrors("a") # {}) =>
        ret.err \in FieldErrors("a")

\* C12 as amended: for an Object schema with fields "a" and "b", whenever
\* the value fails field "a", Validate returns the wrapped error of a field
\* the value fails: that of "a" when "a" is the only field it fails, that of
\* "a" or of another failing field, whichever is visited first, otherwise.
C12_SomeFailingFieldNamed ==
    (/\ ret.op = "ObjectSchema.Validate"
     /\ {"a", "b"} \subseteq DOMAIN obj.fieldValidators
     /\ FieldErrors("a") # {}) =>
        LET failing == {f \in DOMAIN obj.fieldValidators : FieldErrors(f) # {}}
        IN  /\ ret.err \in UNION {FieldErrors(f) : f \in failing}
            /\ failing = {"a"} => ret.err \in FieldErrors("a")

\* A map fails both "a" and "b", and the error returned is that of "b".
C12_Witness ==
    /\ ret.op = "ObjectSchema.Validate"
    /\ DOMAIN obj.fieldValidators = {"a", "b"}
    /\ FieldErrors("a") # {}
    /\ FieldErrors("b") # {}
    /\ ret.err \in FieldErrors("b")
    /\ ret.err \notin FieldErrors("a")

\* Validate visited registered fields, each at most once, all of them
\* unless one failed, and gave the validator of field f the argument Arg(f).
VisitedWith(Arg(_)) ==
    LET calls == ret.calls
    IN  /\ \A i \in 1 .. Len(calls) :
               /\ calls[i].field \in DOMAIN obj.fieldValidators
               /\ calls[i].arg = Arg(calls[i].field)
               /\ \A j \in 1 .. Len(calls) : calls[i].field = calls[j].field => i = j
        /\ ret.err = NilError => Len(calls) = Cardinality(DOMAIN obj.fieldValidators)

\* C13 as claimed: when the value is a string-keyed map, each registered
\* field validator is invoked with the value stored under its own field name,
\* and with nil when the key is absent (keys with no registered field are
\* ignored); otherwise it is invoked with the whole value.
C13_FieldGetsStoredValue ==
    ret.op = "ObjectSchema.Validate" =>
        LET Arg(f) == IF ret.value.t = MapType THEN Lookup(ret.value, f) ELSE ret.value
        IN  VisitedWith(Arg)

\* C13 as amended: when the value is a string-keyed map, each registered
\* field validator is invoked with the value stored under its own field name
\* when that value is of the schema's type T, and with the zero value of T
\* when the key is absent or the stored value is of another type (keys with
\* no registered field are ignored); otherwise it is invoked with the whole
\* value.
C13_FieldGetsStoredValueOfT ==
    ret.op = "ObjectSchema.Validate" =>
        LET Zero_T == IF obj.T = AnyType THEN AnyNil ELSE NilMap
            Arg(f) ==
                IF ret.value.t # MapType THEN ret.value
                ELSE IF f \notin DOMAIN ret.value.m THEN Zero_T
                ELSE IF obj.T = AnyType \/ ret.value.m[f].t = obj.T THEN ret.value.m[f]
                ELSE Zero_T
        IN  VisitedWith(Arg)

\* On an Object[map[string]any] the validator of "a" was given the nil map
\* for a map that stores a string under "a".
C13_Witness ==
    /\ ret.op = "ObjectSchema.Validate"
    /\ obj.T = MapType
    /\ "a" \in DOMAIN ret.value.m
    /\ ret.value.m["a"] = AnyString("a")
    /\ \E i \in 1 .. Len(ret.calls) : ret.calls[i].field = "a" /\ ret.calls[i].arg = NilMap

----------------------------------------------------------------------------
(* Properties of the Null schema (SpecNull). *)

\* C14: on a Null schema Validate(nil) returns the result of the attached
\* predicates (no error when none is attached), and Validate of a value that
\* is not nil returns "expected null value, got <type>" before any attached
\* predicate runs.
C14_NullCheckFirst ==
    ret.op = "NullSchema.Validate" =>
        IF ret.value = AnyNil
        THEN /\ Result(ret.err, ret.calls) = Schema_Validate(null.Schema, AnyNil)
             /\ null.Schema.validators = <<>> => ret.err = NilError
        ELSE /\ ret.err = Errorf("expected null value, got " \o ret.value.t)
             /\ ret.calls = <<>>

\* A string that the first attached predicate rejects was answered with the
\* type violation, no predicate having run.
C14_Witness ==
    /\ ret.op = "NullSchema.Validate"
    /\ Len(null.Schema.validators) >= 1
    /\ null.Schema.validators[1] = CustomFn({AnyString("a")})
    /\ ret.value = AnyString("a")
    /\ ret.err = Errorf("expected null value, got string")
    /\ ret.calls = <<>>

----------------------------------------------------------------------------
(* Properties of the schemas without predicates (SpecNoPredicate). *)

\* The schema the most recent Validate was called on has no predicate
\* attached.
NoPredicateAttached ==
    CASE ret.op = "Schema.Validate" -> base.validators = <<>>
      [] ret.op = "StringSchema.Validate" -> str.Schema.validators = <<>>
      [] ret.op = "NumberSchema.Validate" -> num.Schema.validators = <<>>
      [] ret.op = "BoolSchema.Validate" -> bool.Schema.validators = <<>>
      [] ret.op = "NullSchema.Validate" -> null.Schema.validators = <<>>
      [] ret.op = "PointerSchema.Validate" -> ptr.Schema.validators = <<>>
      [] ret.op = "ArraySchema.Validate" -> arr.Schema.validators = <<>>
      [] ret.op = "ObjectSchema.Validate" ->
            obj.Schema.validators = <<>> /\ DOMAIN obj.fieldValidators = {}
      [] OTHER -> FALSE

\* C15 as claimed: for every schema kind (base, String, Number, Boolean,
\* Null, Pointer, Array, Object) with no predicate attached, Validate returns
\* no error on every value of the schema's value type.
C15_NoPredicateValid ==
    NoPredicateAttached => ret.err = NilError

\* C15 as amended: for every schema kind with no predicate attached,
\* Validate returns no error on every value of the schema's value type,
\* except that a String, Number or Pointer schema on which Required() is set
\* returns the ErrValueRequired sentinel for "", 0 and nil, and a Null schema
\* returns "expected null value, got <type>" for every value other than nil.
C15_NoPredicateValidUnlessRequiredOrNull ==
    NoPredicateAttached =>
        ret.err =
            CASE ret.op = "StringSchema.Validate" /\ str.required /\ ret.value = "" ->
                    ErrValueRequired
              [] ret.op = "NumberSchema.Validate" /\ num.required /\ ret.value = Zero ->
                    ErrValueRequired
              [] ret.op = "PointerSchema.Validate" /\ ptr.required /\ ret.value = NilPtr ->
                    ErrValueRequired
              [] ret.op = "NullSchema.Validate" /\ ret.value # AnyNil ->
                    Errorf("expected null value, got " \o ret.value.t)
              [] OTHER -> NilError

\* A Null schema without predicates rejected a string.
C15_Witness ==
    /\ ret.op = "NullSchema.Validate"
    /\ null.Schema.validators = <<>>
    /\ ret.value = AnyString("a")
    /\ ret.err = Errorf("expected null value, got string")

----------------------------------------------------------------------------
(* Properties of Custom on the specialized schemas (SpecCustom). *)

\* C16: Custom(fn) on a specialized schema appends fn and returns the same
\* schema: for every value, Validate on what Custom returned gives the result
\* of Validate on the schema Custom was called on, the String schema's
\* required check, the Null schema's null check and the Array schema's
\* nil-as-empty handling included.
C16_CustomReturnsSameSchema ==
    /\ ret.op = "StringSchema.Schema.Validate" =>
           Result(ret.err, ret.calls) = StringSchema_Validate(str, ret.value)
    /\ ret.op = "NullSchema.Schema.Validate" =>
           Result(ret.err, ret.calls) = NullSchema_Validate(null, ret.value)
    /\ ret.op = "ArraySchema.Schema.Validate" =>
           Result(ret.err, ret.calls) = ArraySchema_Validate(arr, ret.value)

----------------------------------------------------------------------------
(* Properties of the JSON Schema adapter (SpecAdapter). *)

TypeNames == {"null", "boolean", "array", "string", "integer", "number", "object"}

\* A node that has, or has below it in an item or a property sub-schema, an
\* empty or unrecognized type, a string pattern that does not compile, or a
\* numeric bound that cannot be read as a number.
RECURSIVE InvalidNode(_)
InvalidNode(n) ==
    \/ n.Type \notin TypeNames
    \/ n.Type = "string" /\ n.Pattern # "" /\ Compile(n.Pattern).err # NilError
    \/ /\ n.Type \in {"integer", "number"}
       /\ \/ n.Minimum # "" /\ Float64(n.Minimum).err # NilError
          \/ n.Maximum # "" /\ Float64(n.Maximum).err # NilError
    \/ n.Type = "array" /\ n.Items # <<>> /\ InvalidNode(n.Items[1])
    \/ /\ n.Type = "object"
       /\ \E i \in 1 .. Len(n.Properties) :
             n.Properties[i].Value # <<>> /\ InvalidNode(n.Properties[i].Value[1])

\* The errors an error wraps, itself included.
RECURSIVE Chain(_)
Chain(err) == {err} \cup UNION {Chain(c) : c \in {err.cause[i] : i \in DOMAIN err.cause}}

\* C17: ParseJSONSchema returns an error and a nil schema whenever the root
\* node or a nested item or property node has an empty or unrecognized type,
\* a pattern that does not compile or a minimum/maximum that is no number,
\* and a schema and no error otherwise; the error of a root node of no known
\* type is ErrInvalidType.  A property whose sub-schema is nil is skipped and
\* causes no error.
C17_ParseErrors ==
    ret.op = "ParseJSONSchema" =>
        /\ InvalidNode(ret.node) => ret.err # NilError /\ ret.schema = <<>>
        /\ ~InvalidNode(ret.node) => ret.err = NilError /\ ret.schema # <<>>
        /\ ret.node.Type \notin TypeNames => ret.err = ErrInvalidType

\* An object node whose first property has no sub-schema and whose second
\* has one of no type: the parse fails on the second.
C17_Witness ==
    /\ ret.op = "ParseJSONSchema"
    /\ ret.node.Type = "object"
    /\ Len(ret.node.Properties) = 2
    /\ ret.node.Properties[1].Value = <<>>
    /\ ret.node.Properties[2].Value = <<Node("")>>
    /\ ret.schema = <<>>
    /\ ErrInvalidType \in Chain(ret.err)

\* The error of the field closure of fieldName around the error cause.
FieldError(fieldName, cause) ==
    Wrapf("validation failed for field \"" \o fieldName \o "\": ", cause)

\* err names the field: it is the error of that field's closure.
NamesField(err, fieldName) ==
    err.cause # <<>> /\ err = FieldError(fieldName, err.cause[1])

\* The properties of an object node that have a sub-schema, and those of
\* them named in the node's required list.
Declared(n) == {i \in 1 .. Len(n.Properties) : n.Properties[i].Value # <<>>}
RequiredOf(n) == {i \in Declared(n) : Contains(n.Required, n.Properties[i].Key)}

\* A validation of a mapping against the schema of an object node.
MappingValidated ==
    /\ ret.op = "ParseJSONSchema.Validate"
    /\ parsed.node[1].Type = "object"
    /\ ret.value.t = MapType

\* The value v meets the type and the constraints the node n declares, and
\* the items of an array those of the node of its items.
RECURSIVE Satisfies(_, _)
Satisfies(n, v) ==
    CASE n.Type = "string" ->
            /\ v.t = "string"
            /\ n.MinLength # <<>> => Len(v.str) >= n.MinLength[1]
            /\ n.MaxLength # <<>> => Len(v.str) <= n.MaxLength[1]
            /\ n.Pattern # "" => MatchString(n.Pattern, v.str)
      [] n.Type = "integer" ->
            /\ v.t = "int64"
            /\ n.Minimum # "" => 2 * v.num.val >= Float64(n.Minimum).halves
            /\ n.Maximum # "" => 2 * v.num.val <= Float64(n.Maximum).halves
      [] n.Type = "number" ->
            /\ v.t \in {"int64", "float64"} /\ ~v.num.nan
            /\ n.Minimum # "" => 2 * v.num.val >= Float64(n.Minimum).halves
            /\ n.Maximum # "" => 2 * v.num.val <= Float64(n.Maximum).halves
      [] n.Type = "boolean" -> v.t = "bool"
      [] n.Type = "null" -> v = AnyNil
      [] n.Type = "array" ->
            /\ v.t = SliceType
            /\ n.MinItems # <<>> => Len(v.items) >= n.MinItems[1]
            /\ n.MaxItems # <<>> => Len(v.items) <= n.MaxItems[1]
            /\ n.Items # <<>> =>
                   \A i \in 1 .. Len(v.items) : Satisfies(n.Items[1], v.items[i])
      [] OTHER -> FALSE

\* The zero value of a string or of a number.
IsZero(v) == v.t \in {"string", "int64", "float64"} /\ v.str = "" /\ v.num = Zero

\* A node whose predicate rejects nil when the node is required.
RejectsAbsence(n) ==
    \/ n.Type \in {"string", "integer", "number", "boolean"}
    \/ n.Type = "array" /\ n.MinItems # <<>> /\ n.MinItems[1] > 0

\* C18 (as claimed): validating a mapping that lacks a property named in the
\* required list of an adapter-built object schema fails with an error that
\* names that field and wraps ErrValueRequired, and a mapping whose
\* properties all satisfy their declared constraints passes.
C18_MissingRequiredNamed ==
    MappingValidated =>
        LET n == parsed.node[1]
        IN  /\ \A i \in RequiredOf(n) :
                  n.Properties[i].Key \notin DOMAIN ret.value.m =>
                      /\ ret.err # NilError
                      /\ ret.err = FieldError(n.Properties[i].Key, ErrValueRequired)
            /\ (\A i \in Declared(n) :
                   /\ n.Properties[i].Key \in DOMAIN ret.value.m
                   /\ Satisfies(n.Properties[i].Value[1], ret.value.m[n.Properties[i].Key]))
                => ret.err = NilError

\* C18 (amended): validating a mapping that lacks a required property of type
\* string, integer, number or boolean, or of type array with minItems > 0,
\* fails with an error that names a property of the node; when it names the
\* missing one it is that field's error around ErrValueRequired, and it names
\* the missing one when the node declares no other property.  A required
\* property of type null, or of type array without minItems > 0, that is the
\* node's only property may be missing: the mapping passes.  A mapping that
\* has every declared property with a value that satisfies its constraints
\* and is not "" or 0 passes.
C18_MissingRequiredFails ==
    MappingValidated =>
        LET n == parsed.node[1]
            key(i) == n.Properties[i].Key
            sub(i) == n.Properties[i].Value[1]
        IN  /\ \A i \in RequiredOf(n) :
                  (key(i) \notin DOMAIN ret.value.m /\ RejectsAbsence(sub(i))) =>
                      /\ ret.err # NilError
                      /\ \E j \in Declared(n) : NamesField(ret.err, key(j))
                      /\ NamesField(ret.err, key(i)) =>
                             ret.err = FieldError(key(i), ErrValueRequired)
                      /\ Declared(n) = {i} => NamesField(ret.err, key(i))
            /\ \A i \in RequiredOf(n) :
                  (/\ key(i) \notin DOMAIN ret.value.m
                   /\ Declared(n) = {i}
                   /\ sub(i).Type \in {"null", "array"}
                   /\ ~RejectsAbsence(sub(i))) => ret.err = NilError
            /\ (\A i \in Declared(n) :
                   /\ key(i) \in DOMAIN ret.value.m
                   /\ Satisfies(sub(i), ret.value.m[key(i)])
                   /\ ~IsZero(ret.value.m[key(i)]))
                => ret.err = NilError

\* The empty mapping against an object node that requires its string
\* property "a" and its integer property "b": the error is that of "b".
C18_Witness ==
    /\ MappingValidated
    /\ ret.value = MapValue(<<>>)
    /\ Len(parsed.node[1].Properties) = 2
    /\ RequiredOf(parsed.node[1]) = {1, 2}
    /\ parsed.node[1].Properties[1].Value[1].Type = "string"
    /\ parsed.node[1].Properties[2].Value[1].Type = "integer"
    /\ ret.err = FieldError("b", ErrValueRequired)

\* The invocations of the field closures of the object schema behind the
\* validated schema, one event for each field visited.
FieldEvents == {ret.calls[i] : i \in {j \in DOMAIN ret.calls : ret.calls[j].fn = "validateFn"}}

\* The error an array node's predicate returned for the property of the
\* event e: the cause of the field's error, or nil when the field passed.
\* Validate stops at the first failing field, so the error of a failing
\* field is the error returned.
FieldResult(e) ==
    IF NamesField(ret.err, e.field) THEN ret.err.cause[1] ELSE NilError

\* minItems > 0
MinItemsAboveZero(n) == n.MinItems # <<>> /\ n.MinItems[1] > 0

\* C19: the predicate of an adapter-built array node returns ErrValueRequired
\* for nil exactly when the node is required and declares minItems > 0, and
\* accepts nil otherwise, also when a node that is not required declares
\* minItems > 0; an empty array that is present is checked against minItems:
\* it is rejected exactly when minItems > 0, with the error of Min.  This is
\* stated of an array node at the root, which is never required, and of an
\* array node that is a property of an object node validated on a mapping.
C19_ArrayNil ==
    /\ (ret.op = "ParseJSONSchema.Validate" /\ parsed.node[1].Type = "array") =>
           LET n == parsed.node[1]
           IN  /\ ret.value = AnyNil => ret.err = NilError
               /\ ret.value \in {SliceValue(<<>>), NilSliceValue} =>
                      ret.err = IF MinItemsAboveZero(n)
                                THEN Errorf("array length must be at least "
                                               \o ToString(n.MinItems[1]))
                                ELSE NilError
    /\ MappingValidated =>
           LET n == parsed.node[1]
           IN  \A i \in Declared(n) : \A e \in FieldEvents :
                  LET sub == n.Properties[i].Value[1]
                      required == Contains(n.Required, n.Properties[i].Key)
                  IN  (e.field = n.Properties[i].Key /\ sub.Type = "array") =>
                          /\ e.arg = AnyNil =>
                                 FieldResult(e) = IF required /\ MinItemsAboveZero(sub)
                                                  THEN ErrValueRequired
                                                  ELSE NilError
                          /\ e.arg = SliceValue(<<>>) =>
                                 FieldResult(e) =
                                     IF MinItemsAboveZero(sub)
                                     THEN Errorf("array length must be at least "
                                                    \o ToString(sub.MinItems[1]))
                                     ELSE NilError

\* A mapping without "a" against an object node whose required property "a"
\* is an array node with minItems 1 and whose property "b", an array node
\* with minItems 1 too, is not required: "b" was visited and passed, "a"
\* failed with ErrValueRequired.
C19_Witness ==
    /\ MappingValidated
    /\ parsed.node[1].Required = <<"a">>
    /\ Len(parsed.node[1].Properties) = 2
    /\ \A i \in {1, 2} : /\ parsed.node[1].Properties[i].Value # <<>>
                         /\ parsed.node[1].Properties[i].Value[1].Type = "array"
                         /\ MinItemsAboveZero(parsed.node[1].Properties[i].Value[1])
    /\ \E e \in FieldEvents : e.field = "b" /\ e.arg = AnyNil
    /\ ret.err = FieldError("a", ErrValueRequired)

\* The errors ParseJSONSchema returns for the documents, with the errors
\* they wrap.
BuildErrors == UNION {Chain(ParseJSONSchema(n).err) : n \in Nodes} \ {NilError}

\* The error of an unsigned value above the largest int64.
OverflowError(value) ==
    Errorf(value.t \o " value " \o ToString(value.num.val) \o " exceeds maximum int64")

OverflowErrors ==
    {OverflowError(Uint(t, n)) : t \in {"uint64", "uint"}, n \in MaxInt64 + 1 .. 2 ^ IntBits - 1}

\* C20 (as claimed): the adapter's build errors, among them that of an
\* unsigned value above the signed 64-bit range, are returned by
\* ParseJSONSchema only and never by Validate on the schema it returned.
C20_BuildErrorsAtParseOnly ==
    ret.op = "ParseJSONSchema.Validate" =>
        Chain(ret.err) \cap (BuildErrors \cup OverflowErrors) = {}

\* C20 (amended): the errors of an unrecognized or missing type, of an
\* invalid pattern and of an unparseable bound are returned by
\* ParseJSONSchema only, never by Validate on the schema it returned.  The
\* error of an unsigned value above the signed 64-bit range is never
\* returned by ParseJSONSchema: Validate returns it, when a uint64 or uint
\* above the largest int64 is validated against an integer node.
C20_BuildErrorsAtParseOverflowAtValidate ==
    /\ ret.op = "ParseJSONSchema.Validate" => Chain(ret.err) \cap BuildErrors = {}
    /\ ret.op = "ParseJSONSchema" => Chain(ret.err) \cap OverflowErrors = {}
    /\ (/\ ret.op = "ParseJSONSchema.Validate"
        /\ parsed.node[1].Type = "integer"
        /\ ret.value.t \in {"uint64", "uint"}
        /\ ret.value.num.val > MaxInt64) => ret.err = OverflowError(ret.value)

\* A uint64 one above the largest int64, validated against an integer node
\* with bounds.
C20_Witness ==
    /\ ret.op = "ParseJSONSchema.Validate"
    /\ parsed.node[1].Type = "integer"
    /\ parsed.node[1].Minimum # ""
    /\ ret.value = Uint("uint64", MaxInt64 + 1)
    /\ ret.err \in OverflowErrors

\* The error of the Items closure for the item at index i around cause.
ItemError(i, cause) == Wrapf("invalid item at index " \o ToString(i) \o ": ", cause)

\* The innermost error an error wraps.
RECURSIVE Root(_)
Root(err) == IF err.cause = <<>> THEN err ELSE Root(err.cause[1])

\* The dynamic types of the values validated, nested ones included.
RECURSIVE TypesIn(_)
TypesIn(v) ==
    {v.t} \cup (IF v.t = SliceType
                THEN UNION {TypesIn(v.items[i]) : i \in DOMAIN v.items}
                ELSE IF v.t = MapType
                THEN UNION {TypesIn(v.m[k]) : k \in DOMAIN v.m}
                ELSE {})

ValueTypes == UNION {TypesIn(v) : v \in AdapterValues}

\* An error the predicate of node n raises itself, with no cause: an object
\* node raises none, an array node that of nil, of a length or of a type,
\* any other node any.
OwnError(n, err) ==
    /\ err.cause = <<>>
    /\ n.Type # "object"
    /\ n.Type = "array" =>
           \/ err = ErrValueRequired
           \/ \E k \in 0 .. MaxLen : err \in {Errorf("array length must be at least " \o ToString(k)),
                                              Errorf("array length must be at most " \o ToString(k))}
           \/ \E t \in ValueTypes : err = Errorf("expected array value, got " \o t)

\* err is an error of node n with one wrapper for each level between n and
\* the node whose predicate raised the innermost error.
RECURSIVE WrapsPerLevel(_, _)
WrapsPerLevel(n, err) ==
    \/ OwnError(n, err)
    \/ /\ n.Type = "object"
       /\ err.cause # <<>>
       /\ \E i \in Declared(n) :
             /\ err = FieldError(n.Properties[i].Key, err.cause[1])
             /\ WrapsPerLevel(n.Properties[i].Value[1], err.cause[1])
    \/ /\ n.Type = "array"
       /\ n.Items # <<>>
       /\ err.cause # <<>>
       /\ \E k \in 0 .. MaxLen :
             /\ err = ItemError(k, err.cause[1])
             /\ WrapsPerLevel(n.Items[1], err.cause[1])

\* C23: the error Validate returns for a nesting of object properties and
\* array items has one wrapper, and its message one prefix, for each level
\* around the node that raised the innermost error, and every wrapper keeps
\* the error it wraps as its cause; when the innermost error is a required
\* violation it is ErrValueRequired itself, reached by unwrapping.
C23_WrappingKeepsCause ==
    (ret.op = "ParseJSONSchema.Validate" /\ ret.err # NilError) =>
        /\ WrapsPerLevel(parsed.node[1], ret.err)
        /\ Root(ret.err).msg = ErrValueRequired.msg =>
               /\ Root(ret.err) = ErrValueRequired
               /\ ErrValueRequired \in Chain(ret.err)

\* An array of objects with the required string property "a", validated on
\* an array whose item lacks "a".
C23_Witness ==
    /\ ret.op = "ParseJSONSchema.Validate"
    /\ parsed.node[1].Type = "array"
    /\ parsed.node[1].Items # <<>>
    /\ parsed.node[1].Items[1].Type = "object"
    /\ ret.value = SliceValue(<<MapValue(<<>>)>>)
    /\ ret.err = ItemError(0, FieldError("a", ErrValueRequired))

----------------------------------------------------------------------------
(* Properties of Ptr and its inner schema (SpecPtrInner). *)

\* C24: Ptr(inner) holds the inner schema by reference.  Whatever was
\* attached to the inner schema, or Required() set on it, after Ptr(inner)
\* was called is applied when the Ptr schema validates a non-nil pointer: the
\* error of the inner schema as it is now is the error returned, and a value
\* the inner schema accepts now is accepted when the Ptr schema has no other
\* predicate.  Required() and Custom on the Ptr schema leave the inner
\* schema's predicate list and required flag as they are.
C24_PtrByReference ==
    /\ []((ret.op = "PointerSchema.Validate" /\ ~ret.value.isNil) =>
            LET inner == StringSchema_Validate(str, ret.value.elem)
            IN  /\ inner.err # NilError => ret.err = inner.err
                /\ (inner.err = NilError /\ Len(ptr.Schema.validators) = 1) =>
                       ret.err = NilError)
    /\ [][ret'.op \in {"PointerSchema.Required", "PointerSchema.Custom"} => str' = str]_vars

\* Ptr was called on the new String schema; Required() and Min(2) came
\* after; the pointer to "a" is rejected for its length.
C24_Witness ==
    /\ ret.op = "PointerSchema.Validate"
    /\ str.required
    /\ str.Schema.validators = <<[kind |-> "StringSchema.Min", min |-> 2]>>
    /\ ptr.required
    /\ ret.value = PtrTo("a")
    /\ ret.err = Errorf("length must be at least 2")

----------------------------------------------------------------------------
(* Properties of the adapter's integer node (SpecAdapter). *)

SignedTypes == {"int64", "int32", "int16", "int8", "int"}
UnsignedTypes == {"uint64", "uint32", "uint16", "uint8", "uint"}

IntegerValidated ==
    ret.op = "ParseJSONSchema.Validate" /\ parsed.node[1].Type = "integer"

\* C25: against an adapter-built integer node, a value of a signed or an
\* unsigned integer type that is at most the largest int64 gets the verdict
\* of the equal int64 value; a uint64 or uint above the largest int64 gets
\* the overflow error, not the verdict of the negative number its bits are;
\* a string, boolean, array or mapping gets the type error.
C25_IntegerWidening ==
    IntegerValidated =>
        /\ (ret.value.t \in SignedTypes \cup UnsignedTypes /\ ret.value.num.val <= MaxInt64) =>
               ret.err = Schema_Validate(parsed.schema[1], I64(ret.value.num.val)).err
        /\ (ret.value.t \in UnsignedTypes /\ ret.value.num.val > MaxInt64) =>
               /\ ret.err = OverflowError(ret.value)
               /\ ret.err # Schema_Validate(parsed.schema[1],
                                            I64(ret.value.num.val - 2 ^ IntBits)).err
        /\ ret.value.t \in {"string", "bool", SliceType, MapType} =>
               ret.err = Errorf("expected integer value, got " \o ret.value.t)

\* The largest int64 carried as a uint64, against the node with maximum 1:
\* rejected for the maximum, as the int64 is.
C25_Witness ==
    /\ IntegerValidated
    /\ parsed.node[1].Maximum = "1"
    /\ ret.value = Uint("uint64", MaxInt64)
    /\ ret.err = Errorf("value must be at most 1")

\* The bounds of the parsed integer node, in halves; without one: below and beyond
\* every value.
MinimumHalves ==
    IF parsed.node[1].Minimum = "" THEN 2 * MinInt64
    ELSE Float64(parsed.node[1].Minimum).halves
MaximumHalves ==
    IF parsed.node[1].Maximum = "" THEN 2 * MaxInt64
    ELSE Float64(parsed.node[1].Maximum).halves

\* The least integer that is at least h halves, the greatest that is at most.
RoundedUp(h) == CHOOSE k \in MinInt64 .. MaxInt64 : 2 * k >= h /\ 2 * (k - 1) < h
RoundedDown(h) == CHOOSE k \in MinInt64 .. MaxInt64 : 2 * k <= h /\ 2 * (k + 1) > h

\* C26: against an adapter-built integer node, an integer v passes exactly
\* when minimum <= v <= maximum, the bounds taken as the decimals they are;
\* a v below the minimum is told the minimum rounded up, and a v above the
\* maximum the maximum rounded down.
C26_DecimalBoundsRounded ==
    (IntegerValidated /\ ret.value.t \in SignedTypes) =>
        LET v == ret.value.num.val
        IN  /\ ret.err = NilError <=> (MinimumHalves <= 2 * v /\ 2 * v <= MaximumHalves)
            /\ ret.err = NilError <=>
                   (RoundedUp(MinimumHalves) <= v /\ v <= RoundedDown(MaximumHalves))
            /\ 2 * v < MinimumHalves =>
                   ret.err = Errorf("value must be at least "
                                        \o ToString(RoundedUp(MinimumHalves)))
            /\ (2 * v >= MinimumHalves /\ 2 * v > MaximumHalves) =>
                   ret.err = Errorf("value must be at most "
                                        \o ToString(RoundedDown(MaximumHalves)))

\* The node with minimum 1.5 and maximum 2.5 rejects 1 for the minimum 2.
C26_Witness ==
    /\ IntegerValidated
    /\ parsed.node[1].Minimum = "1.5"
    /\ parsed.node[1].Maximum = "2.5"
    /\ ret.value = I64(1)
    /\ ret.err = Errorf("value must be at least 2")

----------------------------------------------------------------------------
(* Properties of the adapter's object node (SpecAdapter). *)

\* The mapping validated has no value, or nil, under the key of the i-th
\* property of the node n.
Omits(n, i) ==
    \/ n.Properties[i].Key \notin DOMAIN ret.value.m
    \/ ret.value.m[n.Properties[i].Key] = AnyNil

\* The zero value of the type of a leaf node meets the node's constraints;
\* a boolean, an array and a null node have no zero value to check.
ZeroValueMeets(n) ==
    CASE n.Type = "string" -> Satisfies(n, AnyString(""))
      [] n.Type \in {"integer", "number"} -> Satisfies(n, I64(0))
      [] n.Type \in {"boolean", "array", "null"} -> TRUE
      [] OTHER -> FALSE

\* C27: a property of an adapter-built object node that is not in the
\* required list and has no value (or nil) in the mapping is validated as
\* the zero value of its type: a string property as "" against minLength,
\* maxLength and pattern, an integer or number property as 0 against minimum
\* and maximum, so that a mapping that omits an optional property whose
\* constraints "" or 0 does not meet fails, with the error of that property
\* when the node declares no other; an omitted optional boolean or array
\* property passes.
C27_AbsentOptionalAsZero ==
    MappingValidated =>
        LET n == parsed.node[1]
            key(i) == n.Properties[i].Key
            sub(i) == n.Properties[i].Value[1]
            leaves == {i \in Declared(n) :
                          sub(i).Type \in {"string", "integer", "number", "boolean", "array"}}
        IN  \A i \in leaves \ RequiredOf(n) :
                Omits(n, i) =>
                    /\ ~ZeroValueMeets(sub(i)) =>
                           /\ ret.err # NilError
                           /\ \E j \in Declared(n) : NamesField(ret.err, key(j))
                    /\ Declared(n) = {i} =>
                           /\ ret.err = NilError <=> ZeroValueMeets(sub(i))
                           /\ ret.err # NilError => NamesField(ret.err, key(i))
                    /\ (Declared(n) = {i} /\ sub(i).Type = "string"
                            /\ sub(i).MinLength # <<>> /\ sub(i).MinLength[1] >= 1) =>
                           ret.err = FieldError(key(i),
                               Errorf("length must be at least "
                                          \o ToString(sub(i).MinLength[1])))
                    /\ (Declared(n) = {i} /\ sub(i).Type = "integer"
                            /\ sub(i).Minimum # "" /\ Float64(sub(i).Minimum).halves > 0) =>
                           ret.err = FieldError(key(i),
                               Errorf("value must be at least "
                                          \o ToString(RoundedUp(Float64(sub(i).Minimum).halves))))

\* The empty mapping against an object node whose only property is an
\* optional integer with minimum 1: the property fails as 0.
C27_Witness ==
    /\ MappingValidated
    /\ ret.value = MapValue(<<>>)
    /\ parsed.node[1].Required = <<>>
    /\ Len(parsed.node[1].Properties) = 1
    /\ parsed.node[1].Properties[1] = Pair("a", <<[Node("integer") EXCEPT !.Minimum = "1"]>>)
    /\ ret.err = FieldError("a", Errorf("value must be at least 1"))

\* C28: the schema of an adapter-built object node does not reject a value
\* for not being a mapping: the validator of each property visited is given
\* the whole value, every property is visited unless one fails, an error is
\* the error of a property, and a node without properties accepts every
\* value.  The required flag makes no difference to the schema built for an
\* object node or a null node.
C28_ObjectTakesNonMappings ==
    /\ (ret.op = "ParseJSONSchema.Validate" /\ parsed.node[1].Type = "object") =>
           LET n == parsed.node[1]
               keys == {n.Properties[i].Key : i \in Declared(n)}
           IN  /\ Declared(n) = {} => ret.err = NilError
               /\ ret.value.t # MapType =>
                      /\ \A e \in FieldEvents : e.field \in keys /\ e.arg = ret.value
                      /\ ret.err = NilError => {e.field : e \in FieldEvents} = keys
                      /\ ret.err # NilError => \E k \in keys : NamesField(ret.err, k)
    /\ (ret.op = "ParseJSONSchema" /\ ret.node.Type \in {"object", "null"}) =>
           /\ parseJSONSchema(ret.node, TRUE) = parseJSONSchema(ret.node, FALSE)
           /\ parseJSONSchema(ret.node, TRUE).err = ret.err

\* A string validated against an object node with the string property "a":
\* the validator of "a" was given the string, and accepted it.
C28_Witness ==
    /\ ret.op = "ParseJSONSchema.Validate"
    /\ parsed.node[1].Type = "object"
    /\ Len(parsed.node[1].Properties) = 1
    /\ parsed.node[1].Properties[1] = Pair("a", <<[Node("string") EXCEPT !.MinLength = <<1>>]>>)
    /\ ret.value = AnyString("a")
    /\ \E e \in FieldEvents : e.field = "a" /\ e.arg = AnyString("a")
    /\ ret.err = NilError

----------------------------------------------------------------------------
(* Properties of the Object schema's registrations (SpecObject). *)

\* The closures the caller registered under the names of the schema.
Registered == [k \in DOMAIN obj.fieldValidators |-> obj.fieldValidators[k].validateFn]

\* C29: Field and Map store one validator for each distinct field name, the
\* one registered last: after a call the names registered are the earlier
\* ones and those of the call, each name of the call has the closure of the
\* call, also when it had another before, and every other name keeps its
\* validator.  A Validate visits each name at most once and runs the
\* validator the name has now.
C29_LastRegistrationWins ==
    /\ [](ret.op \in {"ObjectSchema.Field", "ObjectSchema.Map"} =>
              \A k \in DOMAIN ret.fieldValidators :
                  /\ k \in DOMAIN obj.fieldValidators
                  /\ Registered[k] = ret.fieldValidators[k]
                  /\ obj.fieldValidators[k].fieldName = k)
    /\ [](ret.op \in {"ObjectSchema.Field", "ObjectSchema.Map"} =>
              /\ DOMAIN obj.fieldValidators =
                     DOMAIN ret.before \cup DOMAIN ret.fieldValidators
              /\ \A k \in DOMAIN ret.before \ DOMAIN ret.fieldValidators :
                     obj.fieldValidators[k] = ret.before[k])
    /\ [](ret.op = "ObjectSchema.Validate" =>
              \A i \in 1 .. Len(ret.calls) :
                  /\ ret.calls[i].field \in DOMAIN obj.fieldValidators
                  /\ \A j \in 1 .. Len(ret.calls) :
                         ret.calls[i].field = ret.calls[j].field => i = j
                  /\ \E r \in ObjectSchema_FieldFn(obj.fieldValidators[ret.calls[i].field],
                                                   FieldArg(ret.calls[i].field)) :
                         /\ r.calls = <<ret.calls[i]>>
                         /\ i < Len(ret.calls) => r.err = NilError
                         /\ i = Len(ret.calls) => r.err = ret.err)
    /\ [][ret'.op \in {"ObjectSchema.Field", "ObjectSchema.Map"} =>
              /\ DOMAIN obj'.fieldValidators =
                     DOMAIN obj.fieldValidators \cup DOMAIN ret'.fieldValidators
              /\ \A k \in DOMAIN obj.fieldValidators \ DOMAIN ret'.fieldValidators :
                     obj'.fieldValidators[k] = obj.fieldValidators[k]]_vars

\* Field registered a validator for "a", which had another: the schema has
\* the one field, with the validator registered last.
C29_Witness ==
    /\ ret.op = "ObjectSchema.Field"
    /\ DOMAIN ret.before = {"a"}
    /\ ret.before["a"].validateFn = CustomFn({AnyNil, NilMap})
    /\ ret.fieldValidators = [k \in {"a"} |-> CustomFn({AnyString("a"), User("a")})]
    /\ DOMAIN obj.fieldValidators = {"a"}
    /\ Registered["a"] = CustomFn({AnyString("a"), User("a")})

\* The results of the validator of field f on its input: the errors are
\* FieldErrors(f); it accepts its input when every result is nil.
Accepts(f) == FieldErrors(f) = {}

\* C30: whatever the order in which Validate visits the fields, it returns
\* no error exactly when every registered field validator accepts its input,
\* and an error it returns is the wrapped error of a field whose validator
\* rejects its input; a field validator either accepts its input in every
\* run or rejects it in every run.
C30_VerdictOrderIndependent ==
    ret.op = "ObjectSchema.Validate" =>
        LET fields == DOMAIN obj.fieldValidators
        IN  /\ ret.err = NilError <=> \A f \in fields : Accepts(f)
            /\ ret.err # NilError =>
                   \E f \in fields : ~Accepts(f) /\ ret.err \in FieldErrors(f)
            /\ \A f \in fields :
                   Accepts(f) \/
                       \A r \in ObjectSchema_FieldFn(obj.fieldValidators[f], FieldArg(f)) :
                           r.err # NilError

\* Of the fields "a" and "b" the value fails "b" only: the error is b's.
C30_Witness ==
    /\ ret.op = "ObjectSchema.Validate"
    /\ DOMAIN obj.fieldValidators = {"a", "b"}
    /\ Accepts("a")
    /\ ~Accepts("b")
    /\ ret.err \in FieldErrors("b")
    /\ NamesField(ret.err, "b")

----------------------------------------------------------------------------
(* Properties of every schema kind (SpecEvery). *)

ValidateOps ==
    {"Schema.Validate", "StringSchema.Validate", "NumberSchema.Validate",
     "BoolSchema.Validate", "NullSchema.Validate", "PointerSchema.Validate",
     "ArraySchema.Validate", "ObjectSchema.Validate", "ParseJSONSchema.Validate"}

\* C21: a Validate call on a schema of any kind, hand-built or built by the
\* adapter, returns for every value: what it returns is nil or an error
\* value, and neither it nor an error it wraps is a panic.
C21_ValidateReturns ==
    ret.op \in ValidateOps =>
        \A e \in Chain(ret.err) :
            /\ e.id \in {"nil", "error", "ErrValueRequired"}
            /\ e.id # "panic"

\* A Ptr schema that is not required was given the nil pointer: its closure
\* returned nil without a dereference.
C21_Witness ==
    /\ ret.op = "PointerSchema.Validate"
    /\ HasPtr
    /\ ~ptr.required
    /\ ret.value = NilPtr
    /\ ret.err = NilError

----------------------------------------------------------------------------
(* Properties of concurrent Validate calls (SpecConcurrent). *)

\* C22: a step of a Validate call changes no schema (the list of
\* predicates, the item validator, the map of field validators stay as they
\* are), and a call that runs interleaved with other calls on the same
\* schema ends with the result the call has when it runs alone: for an
\* Array schema the one result of Validate, for an Object schema one of the
\* results Validate has over the orders of its range.
C22_ConcurrentValidate ==
    /\ [](\A t \in Threads :
              threads[t].pc = "done" =>
                  /\ threads[t].on = "arr" =>
                         threads[t].err = ArraySchema_Validate(arr, threads[t].value).err
                  /\ threads[t].on = "obj" =>
                         threads[t].err \in
                             {r.err : r \in ObjectSchema_Validate(obj, threads[t].value)})
    /\ [][threads' # threads =>
              <<base, str, num, ptr, arr, obj, null, bool, parsed>>' =
                  <<base, str, num, ptr, arr, obj, null, bool, parsed>>]_vars

\* Two calls on an Array schema with UniqueItems at the same time: one has
\* put the key of 1 in its map, the other has found [1] valid.
C22_Witness ==
    /\ \E i \in DOMAIN arr.Schema.validators :
           arr.Schema.validators[i].kind = "ArraySchema.UniqueItems"
    /\ threads[1].pc = "done"
    /\ threads[1].value = Slice(<<I64(1)>>)
    /\ threads[1].err = NilError
    /\ threads[2].pc = "unique"
    /\ "1" \in threads[2].seen

====
